---- MODULE Spec2Model ----
(***************************************************************************)
(* Blue Marble (Wplace) - the autonomous execution controller              *)
(* (src/src/autoPainter.js) and the quick-paint write scheduler            *)
(* (ApiManager.executeQuickPaint).                                         *)
(*                                                                         *)
(* JavaScript runs one task at a time: an action of this model is one      *)
(* task (a timer callback, a DOM event, a message) together with every     *)
(* microtask continuation it wakes, up to the next await that suspends.    *)
(***************************************************************************)
EXTENDS Integers, FiniteSets, Sequences, TLC

\* ---------------------------------------------------------------- bounds
\* paintCycle invocations that can be alive at once in one page
MaxLoops == 2
\* 500 ms polls of waitForElementToBeClickable before its timeout elapses
MaxPolls == 1
\* 300 ms chunks of the fixed waits (5 s canvas retry, 10 s failure backoff)
MaxChunks == 2
\* largest configured inter-cycle interval, in 300 ms chunks
MaxInterval == 2

\* candidates in the queue one analysis returns
MaxQueue == 2
\* the distance of a pixel from the center of the bounding rectangle, divided by
\* the largest such distance, is one of the fractions n / DistSteps
DistSteps == 2
\* calls of findClosestColor in one behaviour
MaxCalls == 3
\* fetch and XHR send calls of the page in one behaviour
MaxRequests == 2

\* cancellation intervals that may be left running at once
MaxPollers == 1
\* largest charge count of the account
MaxCharges == 2
\* Math.random() draws are the multiples k/RandomSteps in [0, 1)
RandomSteps == 2

\* ------------------------------------------------------ program constants
failureThreshold == 3
\* pixels of one budget-burning request
BurnCount == 10
\* analyzeTile: alpha threshold, priority of an erase, base priority of a new
\* placement, largest center bonus, ceiling of the color term
AlphaThreshold == 128
ErasePriority == 2000000
NewPixelPriority == 1000000
MaxCenterBonus == 500000
MAX_PRIORITY_SCORE == 500000
\* calculateColorDifference: factor applied to deltaE
DeltaEScale == 5000
\* findClosestColor: let minDistanceSq = Infinity, as a number above every
\* squared distance of two colors (3 * 255 * 255)
Infinity == 195076

VARIABLES
  isPainting,        \* AutoPainter.isPainting
  failureCount,      \* AutoPainter.failureCount
  resolveQuickPaint, \* AutoPainter.resolveQuickPaint: 0 = null, else the loop whose promise it resolves
  loops,             \* the paintCycle() invocations of this page, by slot
  networkPaused,     \* localStorage 'bm-network-paused' = 'true'
  autopaintEnabled,  \* localStorage 'bm-autopaint-enabled' = 'true'
  reloadPending,     \* "none", or why window.location.reload() was called
  failStreak,        \* history: failed cycles since the last start / success / page load
  event              \* history: what the last task logged, and where its loop was waiting

VARIABLES
  pixelQueue,        \* templateManager.pixelQueue, the authoritative write queue
  pass               \* the executeQuickPaint invocation in progress, or the last one

VARIABLES
  sample,            \* what analyzeTile reads for the pixel it is at, or NoSample
  pixelData          \* what that iteration pushed to newPixelsForQueue

qpVars == <<pixelQueue, pass>>

tmVars == <<sample, pixelData>>

VARIABLES
  colorpaletteRGB,   \* the module-level cache of findClosestColor, null at first
  calls              \* the calls of findClosestColor so far: argument and result

ccVars == <<colorpaletteRGB, calls>>

VARIABLES
  requests           \* history: the page's fetch and XHR send calls so far

netVars == <<requests>>

VARIABLES
  tmName,            \* TemplateManager.name
  templatesJSON,     \* TemplateManager.templatesJSON
  templatesArray,    \* TemplateManager.templatesArray
  storage,           \* the userscript storage entry 'bmTemplates', parsed
  drawn,             \* history: the last drawTemplateOnTile call on the loaded
                     \* templates, and the chunks it found
  tileFetches        \* history: the fetchAndAnalyzeTile calls of the last pass
                     \* over the loaded templates

tpVars == <<tmName, templatesJSON, templatesArray, storage, drawn, tileFetches>>

VARIABLES
  fetches,           \* the page's fetch calls, by blobID: endpoint, state of the
                     \* returned promise, state of the userscript's draw, and
                     \* (history) how often the blobID callback was invoked
  fetchedBlobQueue,  \* the blobIDs with a registered callback
  messages           \* window messages posted and not yet dispatched

fbVars == <<fetches, fetchedBlobQueue, messages>>

VARIABLES
  status,            \* history: what the last task passed to overlay.handleDisplayStatus
  pollers            \* history: cancellation intervals still running after their cycle has ended

\* what the page around the controller shows and keeps, recorded by the tasks of NextUI
obsVars == <<status, pollers>>

apVars == <<isPainting, failureCount, resolveQuickPaint, loops, networkPaused,
            autopaintEnabled, reloadPending, failStreak, event>>

LoopIds == 1..MaxLoops

\* a slot with no paintCycle() invocation, or one that has returned
NoLoop == [pc |-> "done", left |-> 0, qp |-> "none", cancel |-> "none"]

AtPc(p, n) == [pc |-> p, left |-> n, qp |-> "none", cancel |-> "none"]

ElementWaits == {"waitInitial", "waitColor", "waitFinal"}
TimedWaits == {"waitCanvas", "waitInterval", "waitRetry"}
CycleStart == {"waitCanvas", "waitInitial"}

Alive(l) == l.pc # "done"

\* a text of the interval setting: absent or empty, not a number, or a number
\* (the model counts the interval in 300 ms chunks)
Texts == {[kind |-> "empty", n |-> 0], [kind |-> "nan", n |-> 0]}
           \cup [kind : {"num"}, n : -1..MaxInterval]

\* what a cycle reads: #bm-input-autopaint-interval and localStorage 'bm-autopaint-interval'
RawInputs == [input : Texts, stored : Texts]

getIntervalMs(raw) ==
  LET text == IF raw.input.kind # "empty" THEN raw.input
              ELSE IF raw.stored.kind # "empty" THEN raw.stored
              ELSE [kind |-> "num", n |-> 0]
  IN IF text.kind = "nan" \/ text.n < 0 THEN 0 ELSE text.n

NextIterationAlways(painting, canvas) ==
  IF ~canvas THEN AtPc("waitCanvas", MaxChunks)
  ELSE AtPc("waitInitial", MaxPolls)

\* while (this.isPainting) { ... canvas lookup ... first await of the iteration
NextIteration(painting, canvas) ==
  IF ~painting THEN NoLoop
  ELSE IF ~canvas THEN AtPc("waitCanvas", MaxChunks)
  ELSE AtPc("waitInitial", MaxPolls)

\* resolveQuickPaint when it resolves a promise that no loop awaits any more
Stale == -1

\* the resolver stored by loop i survives the loop leaving its try block
Drop(i) == IF resolveQuickPaint = i THEN Stale ELSE resolveQuickPaint

Ev(log, at) == [log |-> log, at |-> at]

ReachedThresholdLate(n) == n > failureThreshold

\* if (this.failureCount >= this.failureThreshold)
ReachedThreshold(n) == n >= failureThreshold

StoppedExternallyIgnored == FALSE

\* catch (error) { if (!this.isPainting) break; ... }
StoppedExternally == ~isPainting

\* while (Date.now() < end), evaluated when a chunk has elapsed and n chunks
\* were left before it
WaitOver(n) == n - 1 <= 0

\* if (ms > 0) { pause, wait, reload }
HasInterval(ms) == ms > 0

\* the loop has ended: this.isPainting = false
ExitLoop(i) ==
  /\ loops' = [loops EXCEPT ![i] = NoLoop]
  /\ isPainting' = FALSE
  /\ resolveQuickPaint' = Drop(i)

\* the failure path of the catch block, entered with isPainting true
Fail(i) ==
  /\ failureCount' = failureCount + 1
  /\ failStreak' = failStreak + 1
  /\ IF ReachedThreshold(failureCount + 1)
       THEN /\ reloadPending' = "failure"
            /\ ExitLoop(i)
            /\ event' = Ev("thresholdReload", loops[i].pc)
            /\ UNCHANGED networkPaused
       ELSE /\ networkPaused' = TRUE
            /\ loops' = [loops EXCEPT ![i] = AtPc("waitRetry", MaxChunks)]
            /\ resolveQuickPaint' = Drop(i)
            /\ event' = Ev("failed", loops[i].pc)
            /\ UNCHANGED <<isPainting, reloadPending>>
  /\ UNCHANGED <<autopaintEnabled>>

\* catch (error): a stop ends the loop silently, anything else is a failure
Catch(i) ==
  IF StoppedExternally
    THEN /\ ExitLoop(i)
         /\ event' = Ev("stoppedExternally", loops[i].pc)
         /\ UNCHANGED <<failureCount, failStreak, networkPaused, reloadPending,
                        autopaintEnabled>>
    ELSE Fail(i)

\* after the race was won by the completion signal; rqp is what the signal
\* left in resolveQuickPaint
Succeed(i, rqp) ==
  /\ failureCount' = 0
  /\ failStreak' = 0
  /\ resolveQuickPaint' = rqp
  /\ event' = Ev("cycleFinished", loops[i].pc)
  /\ UNCHANGED <<autopaintEnabled, reloadPending>>
  /\ \E raw \in RawInputs :
     IF HasInterval(getIntervalMs(raw))
       THEN IF ~isPainting
              THEN \* waitUnlessStopped returns false at once
                   /\ networkPaused' = FALSE
                   /\ loops' = [loops EXCEPT ![i] = NoLoop]
                   /\ isPainting' = FALSE
              ELSE /\ networkPaused' = TRUE
                   /\ loops' = [loops EXCEPT ![i] =
                                  AtPc("waitInterval", getIntervalMs(raw))]
                   /\ UNCHANGED isPainting
       ELSE /\ \E canvas \in BOOLEAN :
                 loops' = [loops EXCEPT ![i] = NextIteration(isPainting, canvas)]
            /\ UNCHANGED <<isPainting, networkPaused>>

CanStartAlways == TRUE

\* if (!this.isPainting)
CanStart == ~isPainting

\* start(): does nothing when already painting; else the call of paintCycle()
\* runs to its first await
StartCall ==
  /\ UNCHANGED <<qpVars, tmVars, ccVars, netVars, tpVars, fbVars>>
  /\ reloadPending = "none"
  /\ IF CanStart
       THEN /\ \E i \in LoopIds :
                 /\ ~Alive(loops[i])
                 /\ \A j \in LoopIds : j < i => Alive(loops[j])
                 /\ \E canvas \in BOOLEAN :
                      loops' = [loops EXCEPT ![i] = NextIteration(TRUE, canvas)]
            /\ isPainting' = TRUE
            /\ failureCount' = 0
            /\ failStreak' = 0
            /\ autopaintEnabled' = TRUE
            /\ event' = Ev("started", "-")
            /\ UNCHANGED <<resolveQuickPaint, networkPaused, reloadPending>>
       ELSE UNCHANGED apVars

\* stop()
StopCall ==
  /\ UNCHANGED <<qpVars, tmVars, ccVars, netVars, tpVars, fbVars>>
  /\ reloadPending = "none"
  /\ isPainting
  /\ isPainting' = FALSE
  /\ autopaintEnabled' = FALSE
  /\ event' = Ev("stopping", "-")
  /\ UNCHANGED <<failureCount, resolveQuickPaint, loops, networkPaused, reloadPending, failStreak>>

\* the element became clickable: click it and run to the next await
Clicked(i) ==
  CASE loops[i].pc = "waitInitial" ->
         /\ loops' = [loops EXCEPT ![i] = AtPc("waitColor", MaxPolls)]
         /\ event' = Ev("clicked", loops[i].pc)
         /\ UNCHANGED <<isPainting, failureCount, resolveQuickPaint, networkPaused,
                        autopaintEnabled, reloadPending, failStreak>>
    [] loops[i].pc = "waitColor" ->
         /\ loops' = [loops EXCEPT ![i] =
                        [pc |-> "waitFinal", left |-> MaxPolls,
                         qp |-> "pending", cancel |-> "polling"]]
         /\ resolveQuickPaint' = i
         /\ event' = Ev("clicked", loops[i].pc)
         /\ UNCHANGED <<isPainting, failureCount, networkPaused,
                        autopaintEnabled, reloadPending, failStreak>>
    [] loops[i].pc = "waitFinal" ->
         IF loops[i].qp = "resolved" THEN Succeed(i, resolveQuickPaint)
         ELSE IF loops[i].cancel = "rejected" THEN Catch(i)
         ELSE /\ loops' = [loops EXCEPT ![i].pc = "waitQuickPaint", ![i].left = 0]
              /\ event' = Ev("clicked", loops[i].pc)
              /\ UNCHANGED <<isPainting, failureCount, resolveQuickPaint, networkPaused,
                             autopaintEnabled, reloadPending, failStreak>>

TimedOutNever(left) == FALSE

\* if (Date.now() - startTime > timeout), at a tick with left polls to go
TimedOut(left) == left = 0

\* one 500 ms tick of waitForElementToBeClickable
\* one poll of waitForElementToBeClickable
ElementPollStep(i) ==
  /\ UNCHANGED <<qpVars, tmVars, ccVars, netVars, tpVars, fbVars>>
  /\ reloadPending = "none"
  /\ loops[i].pc \in ElementWaits
  /\ IF ~isPainting THEN Catch(i)
     ELSE \E clickable \in BOOLEAN :
            IF clickable THEN Clicked(i)
            ELSE IF TimedOut(loops[i].left) THEN Catch(i)
            ELSE /\ loops' = [loops EXCEPT ![i].left = @ - 1]
                 /\ event' = Ev("tick", loops[i].pc)
                 /\ UNCHANGED <<isPainting, failureCount, resolveQuickPaint,
                                networkPaused, autopaintEnabled,
                                reloadPending, failStreak>>

\* one 200 ms tick of the cancellation interval that sees the stop
CancelPollStep(i) ==
  /\ UNCHANGED <<qpVars, tmVars, ccVars, netVars, tpVars, fbVars>>
  /\ reloadPending = "none"
  /\ loops[i].cancel = "polling"
  /\ ~isPainting
  /\ IF loops[i].pc = "waitQuickPaint" THEN Catch(i)
     ELSE /\ loops' = [loops EXCEPT ![i].cancel = "rejected"]
          /\ event' = Ev("tick", loops[i].pc)
          /\ UNCHANGED <<isPainting, failureCount, resolveQuickPaint, networkPaused,
                         autopaintEnabled, reloadPending, failStreak>>

PausedAfterAbortKept(pc, paused) == paused

\* the flag after a wait was aborted by a stop: the interval and the backoff
\* remove it before the break, the canvas retry never touched it
PausedAfterAbort(pc, paused) == IF pc = "waitCanvas" THEN paused ELSE FALSE

\* a 300 ms chunk of waitUnlessStopped elapses
WaitTickStep(i) ==
  /\ UNCHANGED <<qpVars, tmVars, ccVars, netVars, tpVars, fbVars>>
  /\ reloadPending = "none"
  /\ loops[i].pc \in TimedWaits
  /\ UNCHANGED <<failureCount, failStreak, autopaintEnabled>>
  /\ IF WaitOver(loops[i].left)
       THEN \* waited the full duration
            CASE loops[i].pc = "waitCanvas" ->
                   /\ \E canvas \in BOOLEAN :
                        loops' = [loops EXCEPT ![i] = NextIteration(isPainting, canvas)]
                   /\ event' = Ev("waited", loops[i].pc)
                   /\ UNCHANGED <<isPainting, resolveQuickPaint, networkPaused, reloadPending>>
              [] loops[i].pc = "waitRetry" ->
                   /\ networkPaused' = FALSE
                   /\ \E canvas \in BOOLEAN :
                        loops' = [loops EXCEPT ![i] = NextIteration(isPainting, canvas)]
                   /\ event' = Ev("waited", loops[i].pc)
                   /\ UNCHANGED <<isPainting, resolveQuickPaint, reloadPending>>
              [] loops[i].pc = "waitInterval" ->
                   /\ networkPaused' = FALSE
                   /\ reloadPending' = "interval"
                   /\ event' = Ev("intervalReload", loops[i].pc)
                   /\ ExitLoop(i)
       ELSE IF ~isPainting
         THEN \* aborted
              /\ networkPaused' = PausedAfterAbort(loops[i].pc, networkPaused)
              /\ event' = Ev("waitAborted", loops[i].pc)
              /\ ExitLoop(i)
              /\ UNCHANGED reloadPending
         ELSE /\ loops' = [loops EXCEPT ![i].left = @ - 1]
              /\ event' = Ev("tick", loops[i].pc)
              /\ UNCHANGED <<isPainting, resolveQuickPaint, networkPaused, reloadPending>>

\* onQuickPaintFinished(), called by executeQuickPaint after its last status
SignalCall ==
  /\ UNCHANGED <<qpVars, tmVars, ccVars, netVars, tpVars, fbVars>>
  /\ reloadPending = "none"
  /\ IF resolveQuickPaint \in LoopIds /\ loops[resolveQuickPaint].pc = "waitQuickPaint"
       THEN Succeed(resolveQuickPaint, 0)
       ELSE /\ failureCount' = 0
            /\ failStreak' = 0
            /\ resolveQuickPaint' = 0
            /\ loops' = IF resolveQuickPaint \in LoopIds
                          THEN [loops EXCEPT ![resolveQuickPaint].qp = "resolved"]
                          ELSE loops
            /\ event' = Ev("signal", "-")
            /\ UNCHANGED <<isPainting, networkPaused, autopaintEnabled, reloadPending>>

ResumesOnLoadAlways(enabled) == TRUE

\* const isAutoPaintEnabled = localStorage.getItem('bm-autopaint-enabled') === 'true';
\* if (isAutoPaintEnabled) { autoPainter.start(); ... }
ResumesOnLoad(enabled) == enabled

\* the page navigates: the script runs again from the top
PageLoadStep ==
  /\ UNCHANGED <<qpVars, tmVars, ccVars, netVars, tpVars, fbVars>>
  /\ reloadPending # "none"
  /\ reloadPending' = "none"
  /\ networkPaused' = FALSE
  /\ failureCount' = 0
  /\ failStreak' = 0
  /\ resolveQuickPaint' = 0
  /\ isPainting' = ResumesOnLoad(autopaintEnabled)
  /\ \E canvas \in BOOLEAN :
       loops' = [i \in LoopIds |->
                   IF i = 1 /\ ResumesOnLoad(autopaintEnabled)
                     THEN NextIteration(TRUE, canvas) ELSE NoLoop]
  /\ event' = Ev("pageLoad", "-")
  /\ UNCHANGED <<autopaintEnabled>>

\* the controller on its own: what its callers put on the status sink, and the
\* intervals its cycles leave behind, are left to NextUI
Start == StartCall /\ UNCHANGED obsVars

Stop == StopCall /\ UNCHANGED obsVars

ElementPoll(i) == ElementPollStep(i) /\ UNCHANGED obsVars

CancelPoll(i) == CancelPollStep(i) /\ UNCHANGED obsVars

WaitTick(i) == WaitTickStep(i) /\ UNCHANGED obsVars

OnQuickPaintFinished == SignalCall /\ UNCHANGED obsVars

PageLoad == PageLoadStep /\ UNCHANGED obsVars

NextAP ==
  \/ Start
  \/ Stop
  \/ \E i \in LoopIds : ElementPoll(i)
  \/ \E i \in LoopIds : CancelPoll(i)
  \/ \E i \in LoopIds : WaitTick(i)
  \/ OnQuickPaintFinished
  \/ PageLoad

\* ------------------------------------------------- the callers and the sink
\* The tasks of the page that drive the controller, with what each of them
\* passes to overlay.handleDisplayStatus and the intervals it leaves running.

\* the change handler of the AutoPaint box, box now checked
CheckboxChecked ==
  /\ ~autopaintEnabled
  /\ StartCall
  /\ status' = "AutoPaint enabled."
  /\ pollers' = pollers

\* the change handler of the AutoPaint box, box now unchecked
CheckboxUnchecked ==
  /\ StopCall
  /\ status' = "AutoPaint disabled."
  /\ pollers' = pollers

\* createTemplate finds the box checked and calls start()
CreateTemplate ==
  /\ autopaintEnabled
  /\ StartCall
  /\ status' = "Template created"
  /\ pollers' = pollers

\* importJSON finds the box checked and calls start()
ImportJSON ==
  /\ autopaintEnabled
  /\ StartCall
  /\ status' = "none"
  /\ pollers' = pollers

\* the wait for the final paint button rejects: control leaves the try block
\* before the race whose finally holds the only clearInterval of the interval
\* that was set up before the wait
PollerLeft(i) ==
  /\ loops[i].pc = "waitFinal"
  /\ loops[i].cancel = "polling"
  /\ event'.log \in {"failed", "thresholdReload", "stoppedExternally"}

\* a timer of a paint loop fires: paintCycle only writes to the console
LoopTask(i) ==
  /\ ElementPollStep(i) \/ CancelPollStep(i) \/ WaitTickStep(i)
  /\ status' = "none"
  /\ IF PollerLeft(i) THEN pollers < MaxPollers /\ pollers' = pollers + 1
     ELSE pollers' = pollers

\* a 200 ms tick of an interval that was left running: it sees the stop,
\* clears itself and rejects a promise that nothing awaits
LeakedTask ==
  /\ reloadPending = "none"
  /\ pollers > 0
  /\ ~isPainting
  /\ pollers' = pollers - 1
  /\ status' = "none"
  /\ UNCHANGED <<apVars, qpVars, tmVars, ccVars, netVars, tpVars, fbVars>>

\* executeQuickPaint makes its last status and calls onQuickPaintFinished()
QuickPaintFinished ==
  /\ SignalCall
  /\ status' = "Quick Paint"
  /\ pollers' = pollers

\* the script starts on the reloaded page and resumes AutoPaint if it was enabled
ScriptStart ==
  /\ PageLoadStep
  /\ status' = IF autopaintEnabled
                 THEN "AutoPaint re-enabled from previous session." ELSE "none"
  /\ pollers' = 0

NextUI ==
  \/ CheckboxChecked
  \/ CheckboxUnchecked
  \/ CreateTemplate
  \/ ImportJSON
  \/ \E i \in LoopIds : LoopTask(i)
  \/ QuickPaintFinished
  \/ ScriptStart
  \/ LeakedTask


\* ================================================================ scheduler
\* ApiManager.executeQuickPaint: one scheduling pass.

Tiles == {1, 2}
Pixels == {<<0, 0>>, <<1, 0>>}
Colors == {0, 1}
Priorities == {1, 2}

Candidates == [tileCoords : Tiles, pixelCoords : Pixels, colorId : Colors,
               priority : Priorities]

Key(c) == <<c.tileCoords, c.pixelCoords>>

\* the scan order of an analysis: tile by tile, and pixel by pixel in a tile
KeyRank(c) == 2 * c.tileCoords + c.pixelCoords[1]

Range(q) == {q[k] : k \in DOMAIN q}

Min(a, b) == IF a < b THEN a ELSE b
Max(a, b) == IF a > b THEN a ELSE b

\* what one analysis of the template tiles can return: at most one candidate
\* per pixel, in scan order
Queues ==
  {q \in UNION {[1..n -> Candidates] : n \in 0..MaxQueue} :
     \A j, k \in DOMAIN q : j < k => KeyRank(q[j]) < KeyRank(q[k])}

\* localStorage 'bm-available-colors' after JSON.parse: an absent entry reads
\* as undefined, which the filter treats like false
AvailableMaps == [Colors -> BOOLEAN]

PaintableAvailableOnly(pixel, availableColors) == availableColors[pixel.colorId]

\* pixel.colorId === 0 || availableColors[pixel.colorId]
Paintable(pixel, availableColors) ==
  pixel.colorId = 0 \/ availableColors[pixel.colorId]

Filter(queue, availableColors) ==
  LET Keep(pixel) == Paintable(pixel, availableColors)
  IN SelectSeq(queue, Keep)

\* Math.max(0, this.currentCharges - reservedCharges)
PaintCount(currentCharges, reservedCharges) == Max(0, currentCharges - reservedCharges)

\* the order Array.prototype.sort (stable) gives 1..n when lt is the set of the
\* pairs <<j, k>> that the comparator puts j strictly before k: the r-th entry
\* is the index that goes to place r
StableOrder(n, lt) ==
  LET ahead == [i \in 1..n |->
                  Cardinality({j \in 1..n :
                                 <<j, i>> \in lt \/ (<<i, j>> \notin lt /\ j < i)})]
  IN [r \in 1..n |-> CHOOSE i \in 1..n : ahead[i] = r - 1]

\* [...filteredQueue].sort((a, b) => (b.priority || 0) - (a.priority || 0))
SortByPriority(queue) ==
  LET lt == {jk \in (DOMAIN queue) \X (DOMAIN queue) :
               queue[jk[1]].priority > queue[jk[2]].priority}
      order == StableOrder(Len(queue), lt)
  IN [r \in 1..Len(queue) |-> queue[order[r]]]

\* weight of rank i (0-based) of L, times (L - 1) so that it is an integer:
\* (-2.0 / (L - 1.0)) * i + 3.0, or 1.0 when L = 1
ScaledWeight(i, L) == IF L > 1 THEN 3 * (L - 1) - 2 * i ELSE 1

\* Math.pow(ua, 1 / wa) > Math.pow(ub, 1 / wb) for draws ua = pa / RandomSteps and
\* ub = pb / RandomSteps: raise both sides to the power wa * wb
KeyGreater(pa, wa, pb, wb) ==
  (pa ^ wb) * (RandomSteps ^ wa) > (pb ^ wa) * (RandomSteps ^ wb)

TakeOneMore(seq, n) == SubSeq(seq, 1, Min(n + 1, Len(seq)))

\* seq.slice(0, n)
Take(seq, n) == SubSeq(seq, 1, Min(n, Len(seq)))

\* Algorithm A-ES on the sorted queue with the draws u (one per candidate)
WeightedSelect(sortedQueue, u, numToPaint) ==
  LET L == Len(sortedQueue)
      lt == {jk \in (1..L) \X (1..L) :
               KeyGreater(u[jk[1]], ScaledWeight(jk[1] - 1, L),
                          u[jk[2]], ScaledWeight(jk[2] - 1, L))}
      order == StableOrder(L, lt)
  IN Take([r \in 1..L |-> sortedQueue[order[r]]], numToPaint)

\* sortedQueue.slice(0, Math.min(paintCount, sortedQueue.length))
TopSelect(sortedQueue, numToPaint) == Take(sortedQueue, numToPaint)

RECURSIVE GroupColorsFirst(_)
GroupColorsFirst(pixels) ==
  IF pixels = <<>> THEN <<>>
  ELSE LET before == GroupColorsFirst(SubSeq(pixels, 1, Len(pixels) - 1))
           pixel == pixels[Len(pixels)]
           at == {b \in DOMAIN before : before[b].tile = pixel.tileCoords}
       IN IF at = {}
            THEN Append(before, [tile |-> pixel.tileCoords,
                                 colors |-> <<pixel.colorId>>,
                                 coords |-> pixel.pixelCoords])
            ELSE [b \in DOMAIN before |->
                    IF b \in at
                      THEN [tile |-> before[b].tile,
                            colors |-> <<pixel.colorId>> \o before[b].colors,
                            coords |-> before[b].coords \o pixel.pixelCoords]
                      ELSE before[b]]

\* Step 5: group by tile, in the order the tiles first appear in the selection
RECURSIVE Group(_)
Group(pixels) ==
  IF pixels = <<>> THEN <<>>
  ELSE LET before == Group(SubSeq(pixels, 1, Len(pixels) - 1))
           pixel == pixels[Len(pixels)]
           at == {b \in DOMAIN before : before[b].tile = pixel.tileCoords}
       IN IF at = {}
            THEN Append(before, [tile |-> pixel.tileCoords,
                                 colors |-> <<pixel.colorId>>,
                                 coords |-> pixel.pixelCoords])
            ELSE [b \in DOMAIN before |->
                    IF b \in at
                      THEN [tile |-> before[b].tile,
                            colors |-> Append(before[b].colors, pixel.colorId),
                            coords |-> before[b].coords \o pixel.pixelCoords]
                      ELSE before[b]]

RemoveByTile(queue, pixelsToPaint) ==
  LET OtherTile(p) == \A k \in DOMAIN pixelsToPaint :
                        pixelsToPaint[k].tileCoords # p.tileCoords
  IN SelectSeq(queue, OtherTile)

\* Step 6: drop from the queue every key of pixelsToPaint
RemovePainted(queue, pixelsToPaint) ==
  LET Unpainted(p) == \A k \in DOMAIN pixelsToPaint : Key(pixelsToPaint[k]) # Key(p)
  IN SelectSeq(queue, Unpainted)

\* this.currentCharges >= this.maxCharges && this.maxCharges > 0
FullyCharged(currentCharges, maxCharges) ==
  currentCharges >= maxCharges /\ maxCharges > 0

\* the ways fetchAndAnalyzeTile rejects: fetch() rejects, the response is not
\* OK, createImageBitmap cannot decode the blob
TileFailures == {"fetchError", "notOk", "decodeError"}

\* a tile no fetchAndAnalyzeTile call was made for / whose call has not settled
NotFetched == [outcome |-> "none", found |-> <<>>]
Pending == [outcome |-> "pending", found |-> <<>>]

\* what fetchAndAnalyzeTile(t) settles with
TileResults(t) ==
  [outcome : {"ok"}, found : {q \in Queues : \A k \in DOMAIN q : q[k].tileCoords = t}]
    \cup [outcome : TileFailures, found : {<<>>}]

\* .catch((err) => { ...; return []; })
Recovered(result) == IF result.outcome \in TileFailures THEN <<>> ELSE result.found

FlatUnlessFailed(results, n) ==
  IF \E t \in 1..n : results[t].outcome \in TileFailures THEN <<>>
  ELSE results[1].found \o results[2].found

\* (await Promise.all(analysisPromises)).flat() for the tiles 1..n
RECURSIVE Flat(_, _)
Flat(results, n) ==
  IF n = 0 THEN <<>> ELSE Flat(results, n - 1) \o Recovered(results[n])

IdlePass ==
  [stage |-> "idle", scheduler |-> "none",
   analysis |-> [t \in Tiles |-> NotFetched],
   full |-> <<>>, avail |-> [c \in Colors |-> FALSE],
   charges |-> 0, maxCharges |-> 0, reserved |-> 0,
   filtered |-> <<>>, selected |-> <<>>, batches |-> <<>>, posts |-> <<>>,
   burnt |-> 0, signals |-> 0,
   replaced |-> FALSE,   \* history: the call has assigned pixelQueue
   stale |-> FALSE]      \* history: the call found a queue left by an earlier one

\* the record of the call that is running, as at its start
ThisPass == [IdlePass EXCEPT !.stale = pass.stale]

AppendToQueue(queue, fullPixelQueue) == queue \o fullPixelQueue

\* this.templateManager.pixelQueue = fullPixelQueue (this.pixelQueue =
\* newPixelQueue in analyzeVisibleTiles)
ReplaceQueue(queue, fullPixelQueue) == fullPixelQueue

\* the tile requests of Step 2 are in flight
Analyzing ==
  [ThisPass EXCEPT !.stage = "analyzing", !.scheduler = "weighted",
                   !.analysis = [t \in Tiles |-> Pending]]

\* the pass after the join of the analyses, with what it read from the page
Analyzed(scheduler, analysis, full, avail, charges, maxCharges, reserved) ==
  [ThisPass EXCEPT !.scheduler = scheduler, !.replaced = TRUE,
                   !.analysis = analysis, !.full = full, !.avail = avail,
                   !.charges = charges, !.maxCharges = maxCharges,
                   !.reserved = reserved]

\* burnTenCharges: a POST of BurnCount transparent pixels is in flight
Burning(p) == [p EXCEPT !.stage = "burning", !.burnt = BurnCount]

\* the pass returns with no call of the controller (src/src/apiManager.js has
\* none)
Returned(p) == [p EXCEPT !.stage = "done"]

FinishedUnsignalled(p) == [p EXCEPT !.stage = "done"]

\* this.autoPainter?.onQuickPaintFinished(); return
Finished(p) == [p EXCEPT !.stage = "done", !.signals = @ + 1]

\* the POSTs of the tile batches are in flight
Posting(p, pixelsToPaint) ==
  [p EXCEPT !.stage = "posting", !.selected = pixelsToPaint,
            !.batches = Group(pixelsToPaint),
            !.posts = [b \in DOMAIN Group(pixelsToPaint) |-> "pending"]]

\* executeQuickPaint (unnamed/part_003) from the join of the tile analyses to
\* its next await
Schedule(p, u) ==
  IF Len(p.full) = 0
    THEN IF FullyCharged(p.charges, p.maxCharges) THEN Burning(p) ELSE Finished(p)
  ELSE
    LET paintCount == PaintCount(p.charges, p.reserved)
        filteredQueue == Filter(p.full, p.avail)
        q == [p EXCEPT !.filtered = filteredQueue]
    IN IF Len(filteredQueue) = 0 \/ paintCount = 0
         THEN IF FullyCharged(p.charges, p.maxCharges) THEN Burning(q) ELSE Finished(q)
         ELSE LET sortedQueue == SortByPriority(filteredQueue)
                  numToPaint == Min(paintCount, Len(sortedQueue))
                  pixelsToPaint == WeightedSelect(sortedQueue, u, numToPaint)
              IN IF Len(pixelsToPaint) = 0 THEN Finished(q)
                 ELSE Posting(q, pixelsToPaint)

\* executeQuickPaint (src/src/apiManager.js) from the end of analyzeVisibleTiles
\* to its next await: no burning, the best paintCount candidates
ScheduleTopK(p) ==
  IF Len(p.full) = 0 THEN Returned(p)
  ELSE
    LET paintCount == PaintCount(p.charges, p.reserved)
        filteredQueue == Filter(p.full, p.avail)
        q == [p EXCEPT !.filtered = filteredQueue]
    IN IF Len(filteredQueue) = 0 THEN Returned(q)
       ELSE LET sortedQueue == SortByPriority(filteredQueue)
                pixelsToPaint == TopSelect(sortedQueue, Min(paintCount, Len(sortedQueue)))
            IN IF Len(pixelsToPaint) = 0 THEN Returned(q)
               ELSE Posting(q, pixelsToPaint)

\* one Math.random() draw per candidate
Draws(n) == [1..n -> 0..(RandomSteps - 1)]
Reserves == {0, 1}

\* executeQuickPaint of unnamed/part_003 is called: without templates it returns
\* at once, else it starts one fetchAndAnalyzeTile per template tile
ExecuteQuickPaint ==
  /\ UNCHANGED <<apVars, obsVars, tmVars, ccVars, netVars, tpVars, fbVars>>
  /\ pass.stage = "idle"
  /\ UNCHANGED pixelQueue
  /\ \/ \* no template is loaded, or the templates have no pixels
        pass' = Finished([ThisPass EXCEPT !.scheduler = "weighted"])
     \/ pass' = Analyzing

\* fetchAndAnalyzeTile(t) settles; when it is the last one Promise.all resolves:
\* the results are joined, the queue is replaced, and the pass runs to its POSTs
TileSettles(t) ==
  /\ UNCHANGED <<apVars, obsVars, tmVars, ccVars, netVars, tpVars, fbVars>>
  /\ pass.stage = "analyzing"
  /\ pass.analysis[t] = Pending
  /\ \E result \in TileResults(t) :
       LET analysis == [pass.analysis EXCEPT ![t] = result]
           full == Flat(analysis, Cardinality(Tiles))
       IN /\ Len(full) <= MaxQueue
          /\ IF \E k \in Tiles : analysis[k] = Pending
               THEN /\ pass' = [pass EXCEPT !.analysis = analysis]
                    /\ UNCHANGED pixelQueue
               ELSE /\ pixelQueue' = ReplaceQueue(pixelQueue, full)
                    /\ \E avail \in AvailableMaps, charges \in 0..MaxCharges,
                          reserved \in Reserves :
                         IF Len(Filter(full, avail)) = 0 \/ PaintCount(charges, reserved) = 0
                           THEN \* maxCharges is read, no draw is made
                                \E maxCharges \in {0, MaxCharges} :
                                  pass' = Schedule(Analyzed("weighted", analysis, full, avail,
                                                            charges, maxCharges, reserved),
                                                   <<>>)
                           ELSE \* the draws are made, maxCharges is not read
                                \E u \in Draws(Len(Filter(full, avail))) :
                                  pass' = Schedule(Analyzed("weighted", analysis, full, avail,
                                                            charges, 0, reserved), u)

\* a pass of the top-K scheduler of src/src/apiManager.js: analyzeVisibleTiles
\* throws (the pass is over) or replaces the queue
ExecuteQuickPaintTopK ==
  /\ UNCHANGED <<apVars, obsVars, tmVars, ccVars, netVars, tpVars, fbVars>>
  /\ pass.stage = "idle"
  /\ \/ /\ pass' = Returned([ThisPass EXCEPT !.scheduler = "topK"])
        /\ UNCHANGED pixelQueue
     \/ \E full \in Queues, avail \in AvailableMaps, charges \in 0..MaxCharges,
           reserved \in Reserves :
          /\ pixelQueue' = ReplaceQueue(pixelQueue, full)
          /\ pass' = ScheduleTopK(Analyzed("topK", IdlePass.analysis, full, avail,
                                           charges, 0, reserved))

\* the POST of batch b settles; the last one to settle resumes the pass, which
\* updates the queue (Step 6) and returns
PostSettles(b) ==
  /\ UNCHANGED <<apVars, obsVars, tmVars, ccVars, netVars, tpVars, fbVars>>
  /\ pass.stage = "posting"
  /\ b \in DOMAIN pass.posts
  /\ pass.posts[b] = "pending"
  /\ \E outcome \in {"ok", "notOk", "networkError"} :
       LET posts == [pass.posts EXCEPT ![b] = outcome]
       IN IF \E k \in DOMAIN posts : posts[k] = "pending"
            THEN /\ pass' = [pass EXCEPT !.posts = posts]
                 /\ UNCHANGED pixelQueue
            ELSE /\ pass' = IF pass.scheduler = "weighted"
                               THEN Finished([pass EXCEPT !.posts = posts])
                               ELSE Returned([pass EXCEPT !.posts = posts])
                 /\ pixelQueue' = RemovePainted(pixelQueue, pass.selected)

\* the burn request settles (whatever its outcome, the pass only logs it)
BurnSettles ==
  /\ UNCHANGED <<apVars, obsVars, tmVars, ccVars, netVars, tpVars, fbVars>>
  /\ pass.stage = "burning"
  /\ pass' = Finished(pass)
  /\ UNCHANGED pixelQueue

NextQP ==
  \/ ExecuteQuickPaint
  \/ \E t \in Tiles : TileSettles(t)
  \/ ExecuteQuickPaintTopK
  \/ \E b \in 1..MaxQueue : PostSettles(b)
  \/ BurnSettles

\* the pass has returned: the next executeQuickPaint call finds the queue as the
\* pass left it
NextCall ==
  /\ UNCHANGED <<apVars, obsVars, tmVars, ccVars, netVars, tpVars, fbVars>>
  /\ pass.stage = "done"
  /\ pass' = [IdlePass EXCEPT !.stale = pixelQueue # <<>>]
  /\ UNCHANGED pixelQueue

NextRP ==
  \/ ExecuteQuickPaint
  \/ \E t \in Tiles : TileSettles(t)
  \/ ExecuteQuickPaintTopK
  \/ \E b \in 1..MaxQueue : PostSettles(b)
  \/ BurnSettles
  \/ NextCall


\* ============================================================== tile analysis
\* TemplateManager.analyzeTile: the body of its scan loop for one pixel.

\* the first entries of colorpalette; entry k + 1 is the color with id k
Palette == << <<0, 0, 0>>, <<0, 0, 0>>, <<60, 60, 60>>, <<120, 120, 120>> >>

\* colors whose nearest entry in the whole palette is one of Palette
Rgbs == {<<0, 0, 0>>, <<20, 20, 20>>, <<60, 60, 60>>, <<120, 120, 120>>}

Alphas == {0, 1, 127, 128, 129, 255}

Samples == [rgb : Rgbs, alpha : Alphas]

\* values of ciede2000 for two different colors, in hundredths: what it returns
\* for a pair of colors is an input of the iteration. The largest is what it
\* returns for the palette colors Light Green (135, 255, 94) and Dark Purple
\* (120, 12, 153).
DeltaEs == {1, 2, 500, 5000, 10000, 10473}

\* dr * dr + dg * dg + db * db
DistanceSq(rgb, paletteRgb) ==
  (rgb[1] - paletteRgb[1]) * (rgb[1] - paletteRgb[1])
    + (rgb[2] - paletteRgb[2]) * (rgb[2] - paletteRgb[2])
    + (rgb[3] - paletteRgb[3]) * (rgb[3] - paletteRgb[3])

\* colorpaletteRGB before initializePalettes has run
Null == <<>>

\* colorpalette.map(color => color.name === "Transparent" ? null : color.rgb)
MappedPalette == [k \in 1..Len(Palette) |-> IF k = 1 THEN Null ELSE Palette[k]]

\* if (!colorpaletteRGB) colorpaletteRGB = colorpalette.map(...)
initializePalettes(cache) == IF cache = Null THEN MappedPalette ELSE cache

IsCloserOrEqual(distanceSq, minDistanceSq) == distanceSq <= minDistanceSq

\* if (distanceSq < minDistanceSq)
IsCloser(distanceSq, minDistanceSq) == distanceSq < minDistanceSq

\* the forEach over colorpaletteRGB from index on, index 0 skipped; best is the
\* pair of minDistanceSq and closestColorIndex
RECURSIVE ScanPalette(_, _, _, _)
ScanPalette(paletteRGB, rgb, index, best) ==
  IF index >= Len(paletteRGB) THEN best.closestColorIndex
  ELSE IF index = 0 THEN ScanPalette(paletteRGB, rgb, index + 1, best)
  ELSE LET distanceSq == DistanceSq(rgb, paletteRGB[index + 1])
       IN IF IsCloser(distanceSq, best.minDistanceSq)
            THEN ScanPalette(paletteRGB, rgb, index + 1,
                             [minDistanceSq |-> distanceSq, closestColorIndex |-> index])
            ELSE ScanPalette(paletteRGB, rgb, index + 1, best)

\* findClosestColor on an initialized cache
ClosestIn(paletteRGB, rgb) ==
  ScanPalette(paletteRGB, rgb, 0, [minDistanceSq |-> Infinity, closestColorIndex |-> -1])

findClosestColor(rgb) == ClosestIn(initializePalettes(Null), rgb)

\* the arguments of the calls: Rgbs, a color halfway between two entries, and
\* one far from every entry
CallRgbs == Rgbs \cup {<<90, 90, 90>>, <<255, 255, 255>>}

\* a call of findClosestColor, from analyzeTile or from anywhere else
FindClosestColor ==
  /\ UNCHANGED <<apVars, obsVars, qpVars, tmVars, netVars, tpVars, fbVars>>
  /\ Len(calls) < MaxCalls
  /\ \E rgb \in CallRgbs :
       /\ colorpaletteRGB' = initializePalettes(colorpaletteRGB)
       /\ calls' = Append(calls, [rgb |-> rgb,
                                  id |-> ClosestIn(colorpaletteRGB', rgb)])

NextCC == FindClosestColor

\* deltaE * 5000, for a deltaE of e hundredths
calculateColorDifference(e) == (e * DeltaEScale) \div 100

\* Math.min(colorDifference / 100.0, 1.0) * MAX_PRIORITY_SCORE
ColorPriority(colorDifference) ==
  IF colorDifference >= 100 THEN MAX_PRIORITY_SCORE
  ELSE (colorDifference * MAX_PRIORITY_SCORE) \div 100

\* (1 - normalizedDist) * 500000 for normalizedDist = n / DistSteps
CenterBonus(n) == ((DistSteps - n) * MaxCenterBonus) \div DistSteps

IsGriefCleanOpaqueOnly(enabled, templateAlpha, gameAlpha) ==
  enabled /\ templateAlpha < AlphaThreshold /\ gameAlpha >= AlphaThreshold

IsGriefCleanAlwaysEnabled(enabled, templateAlpha, gameAlpha) ==
  templateAlpha < AlphaThreshold /\ gameAlpha > 0

\* this.analyzeTransparentPixels && templateAlpha < 128 && gameAlpha > 0
IsGriefClean(enabled, templateAlpha, gameAlpha) ==
  enabled /\ templateAlpha < AlphaThreshold /\ gameAlpha > 0

IsTransparentNever(gameAlpha) == FALSE

\* const isTransparent = gameAlpha < 128
IsTransparent(gameAlpha) == gameAlpha < AlphaThreshold

IsWrongColorAlways(gameRgb, targetColorId) == TRUE

\* currentColorId !== targetColorId
IsWrongColor(gameRgb, targetColorId) == findClosestColor(gameRgb) # targetColorId

NoSample ==
  [version |-> "none", analyzeTransparentPixels |-> FALSE,
   template |-> [rgb |-> <<0, 0, 0>>, alpha |-> 0],
   game |-> [rgb |-> <<0, 0, 0>>, alpha |-> 0], dist |-> 0, deltaE |-> 0]

\* the samples an iteration can read
SamplesRead(version) ==
  {s \in [version : {version}, analyzeTransparentPixels : BOOLEAN,
          template : Samples, game : Samples, dist : 0..DistSteps,
          deltaE : DeltaEs \cup {0}] :
     s.deltaE = 0 <=> s.template.rgb = s.game.rgb}

\* the priority of a color correction: src/src/templateManager.js rescales the
\* color difference under a ceiling, unnamed/part_001 adds it as it is
CorrectionPriority(s) ==
  IF s.version = "templateManager.js"
    THEN ColorPriority(calculateColorDifference(s.deltaE)) + CenterBonus(s.dist)
    ELSE calculateColorDifference(s.deltaE) + CenterBonus(s.dist)

\* one iteration of the scan: what it pushes to newPixelsForQueue
ScanPixel(s) ==
  IF IsGriefClean(s.analyzeTransparentPixels, s.template.alpha, s.game.alpha)
    THEN << [colorId |-> 0, priority |-> ErasePriority] >>
  ELSE IF s.template.alpha > AlphaThreshold
    THEN LET targetColorId == findClosestColor(s.template.rgb)
         IN IF IsTransparent(s.game.alpha)
              THEN << [colorId |-> targetColorId,
                       priority |-> NewPixelPriority + CenterBonus(s.dist)] >>
            ELSE IF IsWrongColor(s.game.rgb, targetColorId)
              THEN << [colorId |-> targetColorId, priority |-> CorrectionPriority(s)] >>
            ELSE <<>>
  ELSE <<>>

\* analyzeTile of src/src/templateManager.js is at a pixel of the bounding rectangle
AnalyzeTile ==
  /\ UNCHANGED <<apVars, obsVars, qpVars, ccVars, netVars, tpVars, fbVars>>
  /\ sample = NoSample
  /\ \E s \in SamplesRead("templateManager.js") :
       /\ sample' = s
       /\ pixelData' = ScanPixel(s)

\* analyzeTile of unnamed/part_001 is at a pixel of the bounding rectangle
AnalyzeTilePart001 ==
  /\ UNCHANGED <<apVars, obsVars, qpVars, ccVars, netVars, tpVars, fbVars>>
  /\ sample = NoSample
  /\ \E s \in SamplesRead("part_001") :
       /\ sample' = s
       /\ pixelData' = ScanPixel(s)

NextTM ==
  \/ AnalyzeTile
  \/ AnalyzeTilePart001


\* ============================================================ network layer
\* The overrides injected into the page (unnamed/part_000): window.fetch and
\* XMLHttpRequest.prototype.send.

\* what a call is about: the method, whether the URL contains '/s0/pixel/', and
\* what clonedRequest.json() gives (a body with t, one without, not JSON)
Calls == [method : {"GET", "POST"}, pixelUrl : BOOLEAN,
          body : {"token", "noToken", "notJson"},
          quickPaintEnabled : BOOLEAN]

\* send is not passed the method and the URL, and does not look at the body
XhrCalls == {c \in Calls : c.pixelUrl /\ c.body = "noToken" /\ ~c.quickPaintEnabled}

BlockedNever(paused) == FALSE

\* localStorage.getItem('bm-network-paused') === 'true', read when the call is made
Blocked(paused) == paused

\* isQuickPaintEnabled && method === 'POST' && url.includes('/s0/pixel/'), and
\* the body parses to an object with t
IsPaintPost(c) ==
  c.quickPaintEnabled /\ c.method = "POST" /\ c.pixelUrl /\ c.body = "token"

\* the fetch override of part_000:594-681: a blocked call and an intercepted
\* paint POST return a promise that never settles
fetch(c, paused) ==
  IF Blocked(paused)
    THEN [api |-> "fetch", override |-> "part_000:594", call |-> c, paused |-> paused,
          forwarded |-> FALSE, trigger |-> FALSE, settles |-> FALSE]
  ELSE IF IsPaintPost(c)
    THEN [api |-> "fetch", override |-> "part_000:594", call |-> c, paused |-> paused,
          forwarded |-> FALSE, trigger |-> TRUE, settles |-> FALSE]
  ELSE [api |-> "fetch", override |-> "part_000:594", call |-> c, paused |-> paused,
        forwarded |-> TRUE, trigger |-> FALSE, settles |-> TRUE]

\* the fetch override of part_000:58-133: no pause, an intercepted paint POST is
\* answered with a made-up success
fetchUnpaused(c, paused) ==
  IF IsPaintPost(c)
    THEN [api |-> "fetch", override |-> "part_000:58", call |-> c, paused |-> paused,
          forwarded |-> FALSE, trigger |-> TRUE, settles |-> TRUE]
  ELSE [api |-> "fetch", override |-> "part_000:58", call |-> c, paused |-> paused,
        forwarded |-> TRUE, trigger |-> FALSE, settles |-> TRUE]

\* the send override of part_000:572-588
send(c, paused) ==
  [api |-> "xhr", override |-> "part_000:572", call |-> c, paused |-> paused,
   forwarded |-> ~Blocked(paused), trigger |-> FALSE, settles |-> ~Blocked(paused)]

\* the page calls window.fetch with the override of part_000:594 installed
Fetch ==
  /\ UNCHANGED <<apVars, obsVars, qpVars, tmVars, ccVars, tpVars, fbVars>>
  /\ Len(requests) < MaxRequests
  /\ \E c \in Calls : requests' = Append(requests, fetch(c, networkPaused))

\* the page calls window.fetch with the override of part_000:58 installed
FetchUnpaused ==
  /\ UNCHANGED <<apVars, obsVars, qpVars, tmVars, ccVars, tpVars, fbVars>>
  /\ Len(requests) < MaxRequests
  /\ \E c \in Calls : requests' = Append(requests, fetchUnpaused(c, networkPaused))

\* the page calls send on an XMLHttpRequest
XhrSend ==
  /\ UNCHANGED <<apVars, obsVars, qpVars, tmVars, ccVars, tpVars, fbVars>>
  /\ Len(requests) < MaxRequests
  /\ \E c \in XhrCalls : requests' = Append(requests, send(c, networkPaused))

\* localStorage.setItem('bm-network-paused', 'true'): the controller of this
\* page, or of another page of the same origin, enters an interval or a backoff
PauseNetwork ==
  /\ UNCHANGED <<obsVars, qpVars, tmVars, ccVars, netVars, tpVars, fbVars>>
  /\ ~networkPaused
  /\ networkPaused' = TRUE
  /\ UNCHANGED <<isPainting, failureCount, resolveQuickPaint, loops,
                 autopaintEnabled, reloadPending, failStreak, event>>

\* localStorage.removeItem('bm-network-paused')
ResumeNetwork ==
  /\ UNCHANGED <<obsVars, qpVars, tmVars, ccVars, netVars, tpVars, fbVars>>
  /\ networkPaused
  /\ networkPaused' = FALSE
  /\ UNCHANGED <<isPainting, failureCount, resolveQuickPaint, loops,
                 autopaintEnabled, reloadPending, failStreak, event>>

NextNet ==
  \/ Fetch
  \/ FetchUnpaused
  \/ XhrSend
  \/ PauseNetwork
  \/ ResumeNetwork


\* ================================================================ templates
\* TemplateManager: the stored template set, and the chunk keys of the loaded
\* templates as drawTemplateOnTile and executeQuickPaint read them.

\* the characters of a chunk key: the digits 0..9 and the comma
Comma == 10

\* @name of BlueMarble.meta.js, which GM_info.script.name returns
DeclaredName ==
  <<"B", "l", "u", "e", " ", "M", "a", "r", "b", "l", "e", " ",
    "(", "M", "o", "d", "d", "e", "d", ")">>

\* the name without a suffix: the default of the injected script, and the
\* name the literal of importJSON is written for
PlainName == <<"B", "l", "u", "e", " ", "M", "a", "r", "b", "l", "e">>

\* GM_info.script.name: the @name of the installed userscript
Names == {DeclaredName, PlainName}

\* the literal 'BlueMarble' of importJSON
BlueMarble == <<"B", "l", "u", "e", "M", "a", "r", "b", "l", "e">>

\* str.replace(ch, ''): a string pattern replaces the first occurrence only
ReplaceFirst(str, ch) ==
  LET at == {k \in DOMAIN str : str[k] = ch}
  IN IF at = {} THEN str
     ELSE LET first == CHOOSE k \in at : \A j \in at : k <= j
          IN SubSeq(str, 1, first - 1) \o SubSeq(str, first + 1, Len(str))

\* this.templatesJSON = null
NoJSON == [null |-> TRUE, whoami |-> <<>>, templates |-> <<>>]

\* JSON.parse('{}'): an object with no 'whoami' and no 'templates'
EmptyObject == [null |-> FALSE, whoami |-> <<>>, templates |-> <<>>]

\* createJSON()
createJSON(name) ==
  [null |-> FALSE, whoami |-> ReplaceFirst(name, " "), templates |-> <<>>]

\* number.toString()
RECURSIVE toString(_)
toString(n) == IF n < 10 THEN <<n>> ELSE Append(toString(n \div 10), n % 10)

\* str.padStart(targetLength, '0')
RECURSIVE PadStart(_, _)
PadStart(str, targetLength) ==
  IF Len(str) >= targetLength THEN str ELSE PadStart(<<0>> \o str, targetLength)

\* str.startsWith(prefix)
StartsWith(str, prefix) ==
  Len(prefix) <= Len(str) /\ SubSeq(str, 1, Len(prefix)) = prefix

\* str.split(",")
RECURSIVE Split(_)
Split(str) ==
  LET at == {k \in DOMAIN str : str[k] = Comma}
  IN IF at = {} THEN <<str>>
     ELSE LET first == CHOOSE k \in at : \A j \in at : k <= j
          IN <<SubSeq(str, 1, first - 1)>> \o Split(SubSeq(str, first + 1, Len(str)))

\* parseInt(str, 10) and Number(str) of a string of digits
RECURSIVE ParseInt(_)
ParseInt(str) ==
  IF str = <<>> THEN 0
  ELSE 10 * ParseInt(SubSeq(str, 1, Len(str) - 1)) + str[Len(str)]

\* the base of numberToEncoded: the length of TemplateManager.encodingBase
EncodingBase == 92

\* numberToEncoded(number, encoding), as the indexes into encoding
RECURSIVE numberToEncoded(_)
numberToEncoded(number) ==
  IF number < EncodingBase THEN <<number>>
  ELSE Append(numberToEncoded(number \div EncodingBase), number % EncodingBase)

\* what the "me" endpoint can have put into templateManager.userID (0: not yet)
UserIds == {0, 100}

\* where a template is placed (it spans one or two tiles to the right)
TileXs == {1, 10}
TileYs == {1, 10}

\* the tiles the page can fetch
PageTiles == (TileXs \cup {x + 1 : x \in TileXs}) \X TileYs

\* the key of a chunk of Template.createTemplateTiles: the tile indices padded
\* to 4 digits, then the pixel offset in the tile padded to 3 digits
ChunkKey(tile, pixel) ==
  PadStart(toString(tile[1]), 4) \o <<Comma>> \o PadStart(toString(tile[2]), 4)
    \o <<Comma>> \o PadStart(toString(pixel[1]), 3)
    \o <<Comma>> \o PadStart(toString(pixel[2]), 3)

\* template.createTemplateTiles(tileSize): one chunk per tile the image covers
createTemplateTiles(tile, span) ==
  [k \in 1..span |->
     ChunkKey(<<tile[1] + k - 1, tile[2]>>, <<IF k = 1 THEN 500 ELSE 0, 0>>)]

\* this.templatesJSON['templates'][key] = { ..., "tiles": tiles }
PutTemplate(templates, key, tiles) ==
  IF \E k \in DOMAIN templates : templates[k].key = key
    THEN [k \in DOMAIN templates |->
            IF templates[k].key = key THEN [key |-> key, tiles |-> tiles]
            ELSE templates[k]]
    ELSE Append(templates, [key |-> key, tiles |-> tiles])

\* #parseBlueMarble: one Template per entry of json['templates'], pushed to array
RECURSIVE parseBlueMarble(_, _)
parseBlueMarble(templates, array) ==
  IF templates = <<>> THEN array
  ELSE LET entry == templates[1]
           sortID == entry.key[1]
       IN parseBlueMarble(
            SubSeq(templates, 2, Len(templates)),
            Append(array, [sortID |-> IF sortID # 0 THEN sortID ELSE Len(array),
                           authorID |-> entry.key[2],
                           chunked |-> entry.tiles]))

\* if (json && json['whoami'] === 'BlueMarble')
Accepts(json) == ~json.null /\ json.whoami = BlueMarble

\* the chunks of all loaded templates, template by template, key by key
RECURSIVE ChunkRefs(_, _)
ChunkRefs(templates, n) ==
  IF n = 0 THEN <<>>
  ELSE ChunkRefs(templates, n - 1)
         \o [k \in 1..Len(templates[n].chunked) |->
               [template |-> n, sortID |-> templates[n].sortID,
                chunkKey |-> templates[n].chunked[k]]]

IsOnTileFirstFieldOnly(chunkKey, tileCoords) ==
  StartsWith(chunkKey, PadStart(toString(tileCoords[1]), 4))

\* tileKey.startsWith(formattedTileCoords)
IsOnTile(chunkKey, tileCoords) ==
  LET formattedTileCoords ==
        PadStart(toString(tileCoords[1]), 4) \o <<Comma>>
          \o PadStart(toString(tileCoords[2]), 4)
  IN StartsWith(chunkKey, formattedTileCoords)

\* templatesToDraw of drawTemplateOnTile: the chunks on the tile, by sortID
templatesToDraw(templates, tileCoords) ==
  LET OnTile(ref) == IsOnTile(ref.chunkKey, tileCoords)
      found == SelectSeq(ChunkRefs(templates, Len(templates)), OnTile)
      lt == {jk \in (DOMAIN found) \X (DOMAIN found) :
               found[jk[1]].sortID < found[jk[2]].sortID}
      order == StableOrder(Len(found), lt)
  IN [r \in 1..Len(found) |-> found[order[r]]]

\* Step 1 of executeQuickPaint: allTemplatePixelsByTile, in insertion order
RECURSIVE GroupByTile(_)
GroupByTile(refs) ==
  IF refs = <<>> THEN <<>>
  ELSE LET before == GroupByTile(SubSeq(refs, 1, Len(refs) - 1))
           ref == refs[Len(refs)]
           parts == Split(ref.chunkKey)
           tileCoordsKey ==
             toString(ParseInt(parts[1])) \o <<Comma>> \o toString(ParseInt(parts[2]))
           at == {g \in DOMAIN before : before[g].tileCoordsKey = tileCoordsKey}
       IN IF at = {}
            THEN Append(before, [tileCoordsKey |-> tileCoordsKey,
                                 templateChunks |-> <<ref>>])
            ELSE [g \in DOMAIN before |->
                    IF g \in at
                      THEN [before[g] EXCEPT !.templateChunks = Append(@, ref)]
                      ELSE before[g]]

\* Step 2 of executeQuickPaint: the fetchAndAnalyzeTile calls, one per group
TileCalls(groups) ==
  [g \in DOMAIN groups |->
     LET xy == Split(groups[g].tileCoordsKey)
     IN [tileX |-> ParseInt(xy[1]),
         tileY |-> IF Len(xy) > 1 THEN ParseInt(xy[2]) ELSE -1,
         templateChunks |-> groups[g].templateChunks]]

NotDrawn == [tileCoords |-> <<>>, templatesToDraw |-> <<>>]

\* the script starts on a loaded page: new TemplateManager(name, ...), then
\* importJSON(JSON.parse(GM_getValue('bmTemplates', '{}')))
ScriptLoads ==
  /\ UNCHANGED <<apVars, obsVars, qpVars, tmVars, ccVars, netVars, fbVars>>
  /\ \E name \in Names : tmName' = name
  /\ IF Accepts(storage)
       THEN /\ templatesJSON' = storage
            /\ templatesArray' = parseBlueMarble(storage.templates, <<>>)
       ELSE /\ templatesJSON' = NoJSON
            /\ templatesArray' = <<>>
  /\ drawn' = NotDrawn
  /\ tileFetches' = <<>>
  /\ UNCHANGED storage

\* createTemplate(blob, name, coords) with the AutoPaint checkbox unchecked
\* (CreateTemplate is the checked case), with #storeTemplates
CreateTemplateAt ==
  /\ UNCHANGED <<apVars, obsVars, qpVars, tmVars, ccVars, netVars, fbVars>>
  /\ \E userID \in UserIds, tx \in TileXs, ty \in TileYs, span \in {1, 2} :
       LET json == IF templatesJSON.null THEN createJSON(tmName) ELSE templatesJSON
           authorID == numberToEncoded(userID)
           templateTiles == createTemplateTiles(<<tx, ty>>, span)
           stored == [json EXCEPT
                        !.templates = PutTemplate(@, <<0, authorID>>, templateTiles)]
       IN /\ templatesJSON' = stored
          /\ templatesArray' = << [sortID |-> 0, authorID |-> authorID,
                                   chunked |-> templateTiles] >>
          /\ storage' = stored
  /\ drawn' = NotDrawn
  /\ tileFetches' = <<>>
  /\ UNCHANGED tmName

\* drawTemplateOnTile(tileBlob, tileCoords) with templatesShouldBeDrawn set, up
\* to the list of chunks to draw
DrawTemplateOnTile ==
  /\ UNCHANGED <<apVars, obsVars, qpVars, tmVars, ccVars, netVars, fbVars>>
  /\ \E tileCoords \in PageTiles :
       drawn' = [tileCoords |-> tileCoords,
                 templatesToDraw |-> templatesToDraw(templatesArray, tileCoords)]
  /\ UNCHANGED <<tmName, templatesJSON, templatesArray, storage, tileFetches>>

\* Steps 1 and 2 of executeQuickPaint (unnamed/part_003): the chunks are grouped
\* by tile and one fetchAndAnalyzeTile call is made per group
FetchTemplateTiles ==
  /\ UNCHANGED <<apVars, obsVars, qpVars, tmVars, ccVars, netVars, fbVars>>
  /\ templatesArray # <<>>
  /\ tileFetches' =
       TileCalls(GroupByTile(ChunkRefs(templatesArray, Len(templatesArray))))
  /\ UNCHANGED <<tmName, templatesJSON, templatesArray, storage, drawn>>

NextTP ==
  \/ ScriptLoads
  \/ CreateTemplateAt
  \/ DrawTemplateOnTile
  \/ FetchTemplateTiles

\* ================================================================ image hand-off
\* The fetch override of the injected script hands every image response to the
\* userscript and waits for the processed blob (unnamed/part_000); the
\* userscript's message listener answers it (unnamed/part_003).

\* page fetches in one page life
MaxFetches == 3

\* the responses of the page's fetches: the URL, as its segments between '/',
\* and the content-type header
Responses ==
  {<< <<"https:", "", "backend.wplace.live", "files", "s0", "tiles", "1", "2.png">>,
      "image/png" >>,
   << <<"https:", "", "wplace.live", "img", "logo.png">>, "image/png" >>,
   << <<"https:", "", "maps.wplace.live", "sprite.png">>, "image/png" >>,
   << <<"https:", "", "backend.wplace.live", "me">>, "application/json" >>,
   << <<"https:", "", "wplace.live", "">>, "text/html" >>}

\* s.includes(word) for the segments above
Includes(s, word) ==
  \/ word = "." /\ s \in {"backend.wplace.live", "wplace.live", "maps.wplace.live",
                          "2.png", "logo.png", "sprite.png"}
  \/ word = "maps" /\ s = "maps.wplace.live"
  \/ word = "openfreemap" /\ FALSE
  \/ word = "image/" /\ s = "image/png"
  \/ word = "application/json" /\ s = "application/json"

\* endpointText of spontaneousResponseListener ("": undefined)
endpointText(endpoint) ==
  LET NotNumber(s) == s # "" /\ s \notin {"", "1"}   \* s && isNaN(Number(s))
      NoDot(s) == s # "" /\ ~Includes(s, ".")
      left == SelectSeq(SelectSeq(endpoint, NotNumber), NoDot)
  IN IF left = <<>> THEN "" ELSE left[Len(left)]

\* the branch of the override that waits for the userscript
HandsOver(contentType, endpointName) ==
  /\ ~Includes(contentType, "application/json")
  /\ Includes(contentType, "image/")
  /\ ~\E k \in DOMAIN endpointName : Includes(endpointName[k], "openfreemap")
  /\ ~\E k \in DOMAIN endpointName : Includes(endpointName[k], "maps")

\* the condition of the processed-blob listener of the injected script
IsProcessedBlob(data) == data.blobID # 0 /\ data.endpoint = <<>>

\* the cases of the switch that post the processed blob back
Reposts(text) == text = "tiles"

\* window.fetch(request) of the page, through the override: the response
\* arrives and is returned, or handed to the userscript under a fresh blobID
PageFetch ==
  /\ UNCHANGED <<apVars, obsVars, qpVars, tmVars, ccVars, netVars, tpVars>>
  /\ Len(fetches) < MaxFetches
  /\ \E response \in Responses, blobRead \in BOOLEAN :
       LET url == response[1]
           contentType == response[2]
           blobUUID == Len(fetches) + 1
       IN IF HandsOver(contentType, url) /\ blobRead
            THEN /\ fetches' = Append(fetches, [endpoint |-> url, state |-> "waiting",
                                                draw |-> "none", callbackCalls |-> 0])
                 /\ fetchedBlobQueue' = fetchedBlobQueue \cup {blobUUID}
                 /\ messages' = messages \cup {[endpoint |-> url, blobID |-> blobUUID]}
            ELSE /\ fetches' = Append(fetches, [endpoint |-> url, state |-> "returned",
                                                draw |-> "none", callbackCalls |-> 0])
                 /\ fetchedBlobQueue' = fetchedBlobQueue
                 /\ messages' =
                      IF Includes(contentType, "application/json")
                        THEN messages \cup {[endpoint |-> url, blobID |-> 0]}
                        ELSE messages

\* a message event reaches both listeners: the processed-blob listener of the
\* injected script and spontaneousResponseListener, up to its await
MessageEvent ==
  /\ UNCHANGED <<apVars, obsVars, qpVars, tmVars, ccVars, netVars, tpVars>>
  /\ \E data \in messages :
       /\ messages' = messages \ {data}
       /\ IF IsProcessedBlob(data)
            THEN /\ fetchedBlobQueue' = fetchedBlobQueue \ {data.blobID}
                 /\ fetches' =
                      IF data.blobID \in fetchedBlobQueue
                        THEN [fetches EXCEPT ![data.blobID].state = "resolved",
                                             ![data.blobID].callbackCalls = @ + 1]
                        ELSE fetches
            ELSE /\ fetchedBlobQueue' = fetchedBlobQueue
                 /\ fetches' =
                      IF /\ data.endpoint # <<>>
                         /\ Reposts(endpointText(data.endpoint))
                         /\ data.blobID # 0
                        THEN [fetches EXCEPT ![data.blobID].draw = "pending"]
                        ELSE fetches

\* drawTemplateOnTile settles in the "tiles" case: the blob is posted back, or
\* the promise rejects and the listener ends there
DrawSettles ==
  /\ UNCHANGED <<apVars, obsVars, qpVars, tmVars, ccVars, netVars, tpVars>>
  /\ \E id \in DOMAIN fetches, fulfilled \in BOOLEAN :
       /\ fetches[id].draw = "pending"
       /\ fetches' = [fetches EXCEPT ![id].draw = IF fulfilled THEN "done" ELSE "rejected"]
       /\ messages' = IF fulfilled THEN messages \cup {[endpoint |-> <<>>, blobID |-> id]}
                      ELSE messages
       /\ UNCHANGED fetchedBlobQueue

NextFB ==
  \/ PageFetch
  \/ MessageEvent
  \/ DrawSettles

\* ============================================================ specifications
vars == <<apVars, obsVars, qpVars, tmVars, ccVars, netVars, tpVars, fbVars>>

\* the page after its first load: new AutoPainter(), new ApiManager(), AutoPaint
\* not enabled, no pass of the scheduler yet
Init ==
  /\ isPainting = FALSE
  /\ pollers = 0
  /\ failureCount = 0
  /\ resolveQuickPaint = 0
  /\ loops = [i \in LoopIds |-> NoLoop]
  /\ networkPaused = FALSE
  /\ autopaintEnabled = FALSE
  /\ reloadPending = "none"
  /\ failStreak = 0
  /\ event = Ev("pageLoad", "-")
  /\ status = "none"
  /\ pixelQueue = <<>>
  /\ pass = IdlePass
  /\ sample = NoSample
  /\ pixelData = <<>>
  /\ colorpaletteRGB = Null
  /\ calls = <<>>
  /\ requests = <<>>
  /\ tmName = DeclaredName
  /\ templatesJSON = NoJSON
  /\ templatesArray = <<>>
  /\ storage = EmptyObject
  /\ drawn = NotDrawn
  /\ tileFetches = <<>>
  /\ fetches = <<>>
  /\ fetchedBlobQueue = {}
  /\ messages = {}

\* the controller
Spec == Init /\ [][NextAP]_vars

\* the controller when every timer that is due fires and a navigation that was
\* asked for happens; nothing forces a user action or a completion signal
SpecLive ==
  /\ Init
  /\ [][NextAP]_vars
  /\ \A i \in LoopIds :
       WF_vars(ElementPoll(i)) /\ WF_vars(CancelPoll(i)) /\ WF_vars(WaitTick(i))
  /\ WF_vars(PageLoad)

\* the controller with its callers and the status sink
SpecUI == Init /\ [][NextUI]_vars

\* the scheduler
SpecQP == Init /\ [][NextQP]_vars

\* the tile analysis
SpecTM == Init /\ [][NextTM]_vars

\* the palette lookup
SpecCC == Init /\ [][NextCC]_vars

\* the network layer of the page
SpecNet == Init /\ [][NextNet]_vars

\* the template set and its chunk keys
SpecTP == Init /\ [][NextTP]_vars

\* quick paint passes one after the other
SpecRP == Init /\ [][NextRP]_vars

\* the image hand-off between the injected script and the userscript; every
\* posted message is dispatched and every pending draw settles
SpecFB ==
  /\ Init
  /\ [][NextFB]_vars
  /\ WF_vars(MessageEvent)
  /\ WF_vars(DrawSettles)

\* ------------------------------------------------------------ controller claims

ActiveLoops == {i \in LoopIds : Alive(loops[i])}

\* C1: at most one paintCycle loop is active at any time, also when stop() is
\* followed by start() while the previous loop is still inside a wait.
C1_SingleLoopActive == Cardinality(ActiveLoops) <= 1

\* C2: a stop() that arrives at any point of the inter-cycle cooldown wait makes
\* the loop exit at its next poll tick, and no reload is issued.
C2_StopDuringCooldownNoReload ==
  [][\A i \in LoopIds :
       (reloadPending = "none" /\ loops[i].pc = "waitInterval" /\ ~isPainting
          /\ loops'[i] # loops[i])
       => (loops'[i].pc = "done" /\ reloadPending' = "none")]_vars

\* C3: three consecutive failed cycles with no start and no success between
\* them force exactly one reload, on the third failure and not earlier; the
\* loop stops, and the controller of the reloaded page starts with counter 0.
C3_ThreeFailuresOneReload ==
  /\ [](failStreak >= 3 => reloadPending = "failure")
  /\ [](reloadPending = "failure" => failStreak = 3 /\ ~isPainting)
  /\ [][(reloadPending = "none" /\ reloadPending' = "failure")
          => /\ failStreak = 2
             /\ event'.log = "thresholdReload"
             /\ \E i \in LoopIds : Alive(loops[i]) /\ ~Alive(loops'[i])]_vars
  /\ [][reloadPending = "failure"
          => (reloadPending' = "none" /\ failureCount' = 0 /\ failStreak' = 0)]_vars

C3_Witness ==
  /\ reloadPending = "failure"
  /\ failStreak = 3
  /\ event.log = "thresholdReload"

\* C6: every failure of a cycle step while running (canvas not found, or the
\* timeout of one of the three element waits) adds exactly one to the failure
\* counter, and the reload is forced as soon as the counter reaches the threshold.
C6_EveryStepFailureCounts ==
  [][\A i \in LoopIds :
       (reloadPending = "none" /\ isPainting /\ loops'[i] # loops[i])
       => /\ (loops'[i] = AtPc("waitCanvas", MaxChunks)
                => failureCount' = failureCount + 1)
          /\ (loops[i].pc \in ElementWaits /\ loops'[i].pc \in {"waitRetry", "done"}
                => failureCount' = failureCount + 1)
          /\ (failureCount' >= failureThreshold => reloadPending' = "failure")]_vars

\* C7: after every successful cycle with the controller still running the failure
\* counter is reset and a reload is issued before the next cycle begins, whatever
\* the interval (0 included); the network is paused throughout the interval wait.
C7_ReloadAfterEverySuccess ==
  /\ [][\A i \in LoopIds :
          (reloadPending = "none" /\ isPainting /\ event'.log = "cycleFinished"
             /\ loops'[i] # loops[i])
          => (failureCount' = 0 /\ loops'[i].pc \notin CycleStart)]_vars
  /\ [][\A i \in LoopIds :
          (reloadPending = "none" /\ isPainting /\ loops[i].pc = "waitInterval"
             /\ loops'[i].pc # "waitInterval")
          => reloadPending' = "interval"]_vars
  /\ [](\A i \in LoopIds : loops[i].pc = "waitInterval" => networkPaused)

\* C8: while a loop awaits the quick-paint completion signal, whichever settles
\* first decides: a cancellation poll that sees the stop ends the loop with no
\* failure counted and no reload; a completion signal that arrives first is a
\* success (failure counter 0), also when stop() was called but not yet seen.
C8_RaceFirstSettledWins ==
  [][\A i \in LoopIds :
       (reloadPending = "none" /\ loops[i].pc = "waitQuickPaint" /\ loops'[i] # loops[i])
       => IF resolveQuickPaint = i /\ resolveQuickPaint' = 0
            THEN /\ event' = Ev("cycleFinished", "waitQuickPaint")
                 /\ failureCount' = 0
                 /\ failStreak' = 0
                 /\ reloadPending' = "none"
                 /\ isPainting' = isPainting
                 /\ loops'[i].pc \in (IF isPainting THEN CycleStart \cup {"waitInterval"}
                                                    ELSE {"done"})
            ELSE /\ ~isPainting
                 /\ event' = Ev("stoppedExternally", "waitQuickPaint")
                 /\ loops'[i].pc = "done"
                 /\ failureCount' = failureCount
                 /\ failStreak' = failStreak
                 /\ reloadPending' = "none"
                 /\ ~isPainting']_vars

C8_Witness ==
  /\ event = Ev("cycleFinished", "waitQuickPaint")
  /\ ~isPainting
  /\ failureCount = 0
  /\ reloadPending = "none"

\* C15: a failed cycle that leaves the counter below the threshold sets the
\* network-paused flag and waits the backoff with no reload; a stop seen during
\* the wait ends it early; the flag is cleared when the wait ends, aborted or
\* not, and a new cycle starts only if the controller is still running.
C15_BackoffThenRetry ==
  [][\A i \in LoopIds :
       (reloadPending = "none" /\ loops'[i] # loops[i])
       => /\ (event'.log = "failed"
                => /\ loops'[i] = AtPc("waitRetry", MaxChunks)
                   /\ networkPaused'
                   /\ failureCount' = failureCount + 1
                   /\ failureCount' < failureThreshold
                   /\ reloadPending' = "none")
          /\ (loops[i].pc = "waitRetry"
                => /\ reloadPending' = "none"
                   /\ failureCount' = failureCount
                   /\ loops'[i].pc \in {"waitRetry", "done"} \cup CycleStart
                   /\ (loops'[i].pc = "waitRetry" => isPainting)
                   /\ (loops'[i].pc # "waitRetry" => ~networkPaused')
                   /\ (loops'[i].pc \in CycleStart => isPainting)
                   /\ (loops'[i].pc = "done" => ~isPainting /\ ~isPainting'))]_vars

C15_Witness ==
  /\ event = Ev("waitAborted", "waitRetry")
  /\ ~networkPaused
  /\ failureCount \in 1..(failureThreshold - 1)
  /\ reloadPending = "none"

Budget == IF pass.charges > pass.reserved THEN pass.charges - pass.reserved ELSE 0

\* the candidates of the analysis whose color is 0 or marked available
FilteredSet == {c \in Range(pass.full) : c.colorId = 0 \/ pass.avail[c.colorId]}

RECURSIVE BatchWrites(_)
BatchWrites(batches) ==
  IF batches = <<>> THEN 0
  ELSE Len(batches[1].colors) + BatchWrites(Tail(batches))

\* pixel writes the pass has submitted to the remote endpoint
Writes == pass.burnt + BatchWrites(pass.batches)

\* C4: the pixel writes one pass submits never exceed its budget, and a pass
\* with an empty filtered set or a budget of 0 submits none, burning included.
C4_WritesWithinBudget ==
  pass.stage # "idle"
    => /\ Writes <= Budget
       /\ (FilteredSet = {} \/ Budget = 0) => Writes = 0

\* C5: when the pass has returned, the candidates of every tile batch whose
\* POST was not confirmed (non-OK status or network error) are still queued.
C5_FailedBatchStaysQueued ==
  pass.stage = "done"
    => \A b \in DOMAIN pass.posts :
         pass.posts[b] # "ok"
           => \A c \in Range(pass.selected) :
                c.tileCoords = pass.batches[b].tile => c \in Range(pixelQueue)

\* C9: with a non-empty filtered set and a positive budget the pass selects
\* exactly min(budget, |filtered|) candidates, all different and all from the
\* filtered set.
C9_SelectsMinBudgetDistinct ==
  (pass.stage # "idle" /\ FilteredSet # {} /\ Budget > 0)
    => /\ Len(pass.selected) = Min(Budget, Cardinality(FilteredSet))
       /\ \A j, k \in DOMAIN pass.selected : j # k => pass.selected[j] # pass.selected[k]
       /\ Range(pass.selected) \subseteq FilteredSet

C9_Witness ==
  /\ pass.stage = "posting"
  /\ Budget > 0
  /\ Budget < Cardinality(FilteredSet)
  /\ Len(pass.selected) = Budget

\* C10: every submitted candidate has colorId 0 or an available colorId, and
\* the filter keeps every erase candidate, whatever the available-color set is.
C10_OnlyAvailableColors ==
  pass.stage # "idle"
    => /\ \A c \in Range(pass.selected) : c.colorId = 0 \/ pass.avail[c.colorId]
       /\ \A b \in DOMAIN pass.batches : \A k \in DOMAIN pass.batches[b].colors :
            pass.batches[b].colors[k] = 0 \/ pass.avail[pass.batches[b].colors[k]]
       /\ \A c \in Range(pass.full) : c.colorId = 0 => c \in Range(pass.filtered)

C10_Witness ==
  /\ pass.stage = "posting"
  /\ ~pass.avail[0]
  /\ \E c \in Range(pass.full) : c.colorId # 0 /\ ~pass.avail[c.colorId]
  /\ \E c \in Range(pass.selected) : c.colorId = 0

\* the candidates found on the tiles whose fetch and analysis succeeded, tile by tile
FoundOnOkTiles ==
  (IF pass.analysis[1].outcome = "ok" THEN pass.analysis[1].found ELSE <<>>)
    \o (IF pass.analysis[2].outcome = "ok" THEN pass.analysis[2].found ELSE <<>>)

\* C11: the tile analyses of a pass settle in any order and are joined; a failed
\* tile (fetch error, non-OK response, decode error) gives no candidate and does
\* not abort the pass: the queue is exactly the concatenation of the candidates of
\* the tiles that succeeded, and the pass goes on to select from it.
C11_PartialFailureDegrades ==
  (pass.stage \in {"burning", "posting", "done"}
     /\ \A t \in Tiles : pass.analysis[t].outcome \in {"ok"} \cup TileFailures)
    => /\ pass.full = FoundOnOkTiles
       /\ pass.stage # "done" => pixelQueue = FoundOnOkTiles
       /\ (FilteredSet # {} /\ Budget > 0) => pass.selected # <<>>

C11_Witness ==
  /\ pass.stage = "posting"
  /\ \E t \in Tiles : pass.analysis[t].outcome \in TileFailures
  /\ \E t \in Tiles : pass.analysis[t].outcome = "ok" /\ pass.analysis[t].found # <<>>
  /\ pixelQueue = pass.full

\* the selections the scheduler of the pass can make from its filtered queue,
\* one for each outcome of the random draws
PossibleSelections ==
  LET sortedQueue == SortByPriority(pass.filtered)
      numToPaint == Min(Budget, Len(sortedQueue))
  IN IF pass.scheduler = "weighted"
       THEN {WeightedSelect(sortedQueue, u, numToPaint) : u \in Draws(Len(sortedQueue))}
       ELSE {TopSelect(sortedQueue, numToPaint)}

\* C12: selection is weighted sampling, not top-K: the weights fall linearly from
\* 3 times to 1 times the lowest weight, and when the budget is smaller than the
\* filtered queue every filtered candidate, the lowest-priority one included, is
\* selected for some draws, so the top-budget set is not the only outcome.
C12_WeightedNotTopK ==
  (pass.stage = "posting" /\ Len(pass.selected) < Len(pass.filtered))
    => LET L == Len(pass.filtered)
       IN /\ ScaledWeight(0, L) = 3 * ScaledWeight(L - 1, L)
          /\ \A i \in 0..(L - 2) : ScaledWeight(i, L) - ScaledWeight(i + 1, L) = 2
          /\ \A c \in Range(pass.filtered) :
               \E sel \in PossibleSelections : c \in Range(sel)
          /\ Cardinality(PossibleSelections) > 1

\* the positions <<b, k>> of the batches that carry the candidate c
PositionsOf(c) ==
  {bk \in (DOMAIN pass.batches) \X (1..MaxQueue + 1) :
     /\ bk[2] <= Len(pass.batches[bk[1]].colors)
     /\ pass.batches[bk[1]].tile = c.tileCoords
     /\ pass.batches[bk[1]].coords[2 * bk[2] - 1] = c.pixelCoords[1]
     /\ pass.batches[bk[1]].coords[2 * bk[2]] = c.pixelCoords[2]}

\* C13: in every tile batch coords is twice as long as colors and the k-th color
\* goes with the k-th coordinate pair: together they are one selected candidate
\* of that tile; every selected candidate is in exactly one batch, exactly once.
C13_BatchesPairColorsWithCoords ==
  pass.stage \in {"posting", "done"}
    => /\ \A b \in DOMAIN pass.batches :
            /\ Len(pass.batches[b].coords) = 2 * Len(pass.batches[b].colors)
            /\ \A k \in DOMAIN pass.batches[b].colors :
                 \E c \in Range(pass.selected) :
                   /\ c.tileCoords = pass.batches[b].tile
                   /\ c.colorId = pass.batches[b].colors[k]
                   /\ c.pixelCoords = <<pass.batches[b].coords[2 * k - 1],
                                        pass.batches[b].coords[2 * k]>>
       /\ \A c \in Range(pass.selected) : Cardinality(PositionsOf(c)) = 1

C13_Witness ==
  /\ pass.stage = "posting"
  /\ \E b \in DOMAIN pass.batches :
       /\ Len(pass.batches[b].colors) = 2
       /\ pass.batches[b].colors[1] # pass.batches[b].colors[2]

\* the (tileCoords, pixelCoords) keys of the entries of a queue
KeysOf(q) == {<<q[k].tileCoords, q[k].pixelCoords>> : k \in DOMAIN q}

\* C14: the removal of the submitted keys deletes exactly the entries with those
\* keys and keeps the others in their order; removing keys that are not in the
\* queue changes nothing, so removing twice is the same as removing once.
C14_RemovalExactAndIdempotent ==
  pass.stage = "done"
    => /\ \A c \in Range(pass.full) :
            c \in Range(pixelQueue)
              <=> <<c.tileCoords, c.pixelCoords>> \notin KeysOf(pass.selected)
       /\ Range(pixelQueue) \subseteq Range(pass.full)
       /\ \A j, k \in DOMAIN pixelQueue :
            j < k => KeyRank(pixelQueue[j]) < KeyRank(pixelQueue[k])
       /\ RemovePainted(pixelQueue, pass.selected) = pixelQueue
       /\ \A c \in Candidates :
            <<c.tileCoords, c.pixelCoords>> \notin KeysOf(pixelQueue)
              => RemovePainted(pixelQueue, <<c>>) = pixelQueue

C14_Witness ==
  /\ pass.stage = "done"
  /\ pass.selected # <<>>
  /\ pixelQueue # <<>>
  /\ Len(pixelQueue) < Len(pass.full)

\* ======================================================== tile analysis claims

\* the iteration took the color-correction branch for the sample s
IsCorrection(s) ==
  /\ ~IsGriefClean(s.analyzeTransparentPixels, s.template.alpha, s.game.alpha)
  /\ s.template.alpha > AlphaThreshold
  /\ ~IsTransparent(s.game.alpha)
  /\ IsWrongColor(s.game.rgb, findClosestColor(s.template.rgb))

\* the same pixel over another live color
OverLiveColor(s, rgb, e) == [s EXCEPT !.game.rgb = rgb, !.deltaE = e]

\* C17: among color-correction candidates with the same center bonus, a larger
\* deltaE between the live and the template color gives a strictly larger
\* priority, and the color term of the priority is at most 500,000.
C17_PriorityOrdersByDeltaE ==
  (sample # NoSample /\ IsCorrection(sample)) =>
    /\ pixelData[1].priority - CenterBonus(sample.dist) <= MAX_PRIORITY_SCORE
    /\ \A rgb \in Rgbs, e \in DeltaEs :
         LET other == OverLiveColor(sample, rgb, e)
         IN (IsCorrection(other) /\ other.deltaE > sample.deltaE) =>
              ScanPixel(other)[1].priority > pixelData[1].priority

\* C18: with analyzeTransparentPixels enabled, a template sample with alpha < 128
\* over a live sample with alpha > 0 yields exactly one candidate, with colorId 0
\* and priority 2,000,000; every candidate that is not an erase (a new placement
\* or a color correction) has a strictly smaller priority.
C18_EraseIsHighestTier ==
  sample # NoSample =>
    /\ (sample.analyzeTransparentPixels /\ sample.template.alpha < 128
          /\ sample.game.alpha > 0)
         => pixelData = << [colorId |-> 0, priority |-> 2000000] >>
    /\ \A k \in DOMAIN pixelData :
         pixelData[k].colorId # 0 => pixelData[k].priority < 2000000

\* an erase over a live sample that is barely visible
C18_Witness ==
  /\ sample.version = "templateManager.js"
  /\ sample.analyzeTransparentPixels
  /\ sample.template.alpha = 127
  /\ sample.game.alpha = 1
  /\ Len(pixelData) = 1
  /\ pixelData[1].colorId = 0

\* id is a palette color (index 0, "Transparent", is not one) at the smallest
\* distance from rgb
IsNearest(id, rgb) ==
  /\ id \in 1..(Len(Palette) - 1)
  /\ \A other \in 1..(Len(Palette) - 1) :
       DistanceSq(rgb, Palette[id + 1]) <= DistanceSq(rgb, Palette[other + 1])

\* C19: a template sample with alpha > 128 over a live sample with alpha < 128
\* yields exactly one candidate; its colorId is the nearest palette color of the
\* template RGB and its priority is 1,000,000 plus the center bonus, which is at
\* least 1,000,000 and less than 2,000,000.
C19_NewPlacementTier ==
  (sample # NoSample /\ sample.template.alpha > 128 /\ sample.game.alpha < 128) =>
    /\ Len(pixelData) = 1
    /\ IsNearest(pixelData[1].colorId, sample.template.rgb)
    /\ pixelData[1].priority = 1000000 + CenterBonus(sample.dist)
    /\ pixelData[1].priority >= 1000000
    /\ pixelData[1].priority < 2000000

\* a new placement at the center, over a live sample that is faint but not
\* empty, with erasing enabled
C19_Witness ==
  /\ sample.version = "templateManager.js"
  /\ sample.analyzeTransparentPixels
  /\ sample.template = [rgb |-> <<20, 20, 20>>, alpha |-> 255]
  /\ sample.game.alpha = 127
  /\ sample.dist = 0
  /\ pixelData = << [colorId |-> 1, priority |-> 1500000] >>

\* the two colors have the same nearest palette color
SameNearest(rgb1, rgb2) ==
  \E id \in 1..(Len(Palette) - 1) : IsNearest(id, rgb1) /\ IsNearest(id, rgb2)

\* C20: a template sample with alpha > 128 over a live sample with alpha >= 128
\* yields a candidate if and only if the nearest palette color of the live RGB
\* differs from the nearest palette color of the template RGB, and the colorId of
\* that candidate is the nearest palette color of the template RGB.
C20_CorrectionIffNearestDiffer ==
  (sample # NoSample /\ sample.template.alpha > 128 /\ sample.game.alpha >= 128) =>
    /\ Len(pixelData) <= 1
    /\ Len(pixelData) = 1 <=> ~SameNearest(sample.game.rgb, sample.template.rgb)
    /\ \A k \in DOMAIN pixelData :
         IsNearest(pixelData[k].colorId, sample.template.rgb)

\* a correction of a live color at the alpha threshold whose nearest palette
\* color is another one than the template's
C20_Witness ==
  /\ sample.version = "templateManager.js"
  /\ sample.template = [rgb |-> <<60, 60, 60>>, alpha |-> 255]
  /\ sample.game = [rgb |-> <<20, 20, 20>>, alpha |-> 128]
  /\ Len(pixelData) = 1
  /\ pixelData[1].colorId = 2

\* the four outcomes of the classification, as conditions on the sample s
OutcomeGriefClean(s) ==
  s.analyzeTransparentPixels /\ s.template.alpha < 128 /\ s.game.alpha > 0

OutcomeNewPlacement(s) == s.template.alpha > 128 /\ s.game.alpha < 128

OutcomeColorCorrection(s) ==
  /\ s.template.alpha > 128
  /\ s.game.alpha >= 128
  /\ ~SameNearest(s.game.rgb, s.template.rgb)

\* the template pixel is transparent and erasing is disabled or there is nothing
\* to erase, or the live pixel has the nearest color of the template pixel
OutcomeNoCandidate(s) ==
  \/ s.template.alpha < 128 /\ ~s.analyzeTransparentPixels
  \/ s.template.alpha < 128 /\ s.game.alpha = 0
  \/ /\ s.template.alpha > 128
     /\ s.game.alpha >= 128
     /\ SameNearest(s.game.rgb, s.template.rgb)

OutcomesOf(s) ==
  {o \in {"griefClean", "newPlacement", "colorCorrection", "noCandidate"} :
     \/ o = "griefClean" /\ OutcomeGriefClean(s)
     \/ o = "newPlacement" /\ OutcomeNewPlacement(s)
     \/ o = "colorCorrection" /\ OutcomeColorCorrection(s)
     \/ o = "noCandidate" /\ OutcomeNoCandidate(s)}

\* C21: every pixel the scan visits falls into exactly one of the four outcomes
\* and yields at most one candidate, and it yields no candidate only in the
\* no-candidate outcome, for every alpha of both samples, 128 included.
C21_ExactlyOneOutcome ==
  sample # NoSample =>
    /\ Cardinality(OutcomesOf(sample)) = 1
    /\ Len(pixelData) <= 1
    /\ pixelData = <<>> => OutcomeNoCandidate(sample)

\* C22: with analyzeTransparentPixels false, a template sample with alpha < 128
\* yields no candidate, whatever the color and the alpha of the live sample.
C22_DisabledNeverErases ==
  (sample # NoSample /\ ~sample.analyzeTransparentPixels
     /\ sample.template.alpha < 128) => pixelData = <<>>

\* erasing disabled, a transparent template pixel over an opaque live pixel
C22_Witness ==
  /\ sample.version = "templateManager.js"
  /\ ~sample.analyzeTransparentPixels
  /\ sample.template.alpha = 127
  /\ sample.game = [rgb |-> <<120, 120, 120>>, alpha |-> 255]
  /\ pixelData = <<>>

\* ====================================================== palette lookup claims

\* C23: findClosestColor returns the id of a palette entry at the smallest
\* squared RGB distance among the ids 1..N-1; it never returns 0 or -1, a tie
\* goes to the lowest id, and two calls with the same argument return the same id.
C23_ClosestLowestIdStable ==
  \A k \in DOMAIN calls :
    /\ calls[k].id \in 1..(Len(Palette) - 1)
    /\ \A other \in 1..(Len(Palette) - 1) :
         \/ DistanceSq(calls[k].rgb, Palette[calls[k].id + 1])
              < DistanceSq(calls[k].rgb, Palette[other + 1])
         \/ /\ DistanceSq(calls[k].rgb, Palette[calls[k].id + 1])
                 = DistanceSq(calls[k].rgb, Palette[other + 1])
            /\ calls[k].id <= other
    /\ \A j \in DOMAIN calls : calls[j].rgb = calls[k].rgb => calls[j].id = calls[k].id

\* the first and a later call with a color halfway between entries 2 and 3, and
\* a call with black, which is as near to entry 0 as to entry 1
C23_Witness ==
  /\ Len(calls) = 3
  /\ calls[1] = [rgb |-> <<90, 90, 90>>, id |-> 2]
  /\ calls[2] = [rgb |-> <<0, 0, 0>>, id |-> 1]
  /\ calls[3] = calls[1]

\* ============================================== controller claims, continued

\* C24: the poll of an element wait at which the ceiling has elapsed ends the wait:
\* unless the element is clickable at that very poll, the wait rejects and the
\* controller counts exactly one failure (backoff, or reload at the threshold);
\* a poll that sees the stop exits the loop with no failure counted, even when
\* the ceiling has elapsed too.
C24_TimeoutCountsOnceStopFirst ==
  [][\A i \in LoopIds :
       ElementPoll(i) =>
         /\ (isPainting /\ loops[i].left = 0) =>
              /\ loops'[i].pc # loops[i].pc
              /\ loops'[i].pc \in {"waitRetry", "done"} =>
                   /\ failureCount' = failureCount + 1
                   /\ failStreak' = failStreak + 1
                   /\ event'.log \in {"failed", "thresholdReload"}
                   /\ loops'[i].pc = "done" <=> reloadPending' = "failure"
         /\ ~isPainting =>
              /\ loops'[i] = NoLoop
              /\ failureCount' = failureCount
              /\ failStreak' = failStreak
              /\ reloadPending' = "none"
              /\ event'.log = "stoppedExternally"]_vars

\* the wait for the color button has timed out as the second failure in a row
C24_Witness ==
  /\ event = Ev("failed", "waitColor")
  /\ failureCount = 2
  /\ \E i \in LoopIds : loops[i].pc = "waitRetry"

\* C25: every transition of the controller (started, stopped, cycle success,
\* cycle failure, threshold reached) puts exactly one notification on the status
\* sink in the task that makes it, whoever called, and a notification of the
\* controller is made only with a transition.
C25_EveryTransitionNotified ==
  [][/\ (apVars' # apVars
           /\ event'.log \in {"started", "stopping", "cycleFinished", "failed",
                              "thresholdReload"})
          => status' # "none"
     /\ status' \in {"AutoPaint enabled.", "AutoPaint disabled.",
                     "AutoPaint re-enabled from previous session."}
          => (isPainting' # isPainting \/ event'.log = "pageLoad")]_vars

\* ================================================ scheduler claims, continued

C27_QuickPaintWaitEnds ==
  \A i \in LoopIds :
    (loops[i].pc = "waitQuickPaint") ~> (loops[i].pc # "waitQuickPaint")

\* ====================================================== network layer claims

C29_PausedOnlyInsideWaits ==
  /\ [](networkPaused =>
          \E i \in LoopIds : loops[i].pc \in {"waitInterval", "waitRetry"})
  /\ [][event'.log = "pageLoad" => ~networkPaused']_vars

\* the flag is set during a backoff
C29_Witness ==
  /\ networkPaused
  /\ \E i \in LoopIds : loops[i].pc = "waitRetry"
  /\ \A i \in LoopIds : loops[i].pc # "waitInterval"

\* ============================================ controller claims: the pollers

\* no interval is ever running after its cycle has ended
NoPollerOutlivesCycle == pollers = 0

\* C30: every cancellation interval is cleared by the time its cycle ends,
\* whatever the outcome of the cycle; stated for the outcome the sentence
\* singles out: while a loop that is still painting is in the backoff after a
\* failed cycle, no interval of an ended cycle is running.
C30_NoPollerAfterFailedCycle ==
  \A i \in LoopIds : (loops[i].pc = "waitRetry" /\ isPainting) => pollers = 0

\* ================================================ controller claims: counters

OverEmptyPixel(s, n) == [s EXCEPT !.game.alpha = 0, !.dist = n]

\* C34: the center bonus of an analyzed pixel lies in [0, 500,000], and a
\* color correction never has a priority above that of a new placement,
\* wherever in the rectangle the two pixels are and whatever the two colors of
\* the correction.
C34_NewPlacementAboveCorrection ==
  sample # NoSample =>
    /\ CenterBonus(sample.dist) \in 0..500000
    /\ IsCorrection(sample) =>
         \A n \in 0..DistSteps :
           LET placed == ScanPixel(OverEmptyPixel(sample, n))
           IN /\ Len(placed) = 1
              /\ placed[1].priority >= 1000000
              /\ placed[1].priority >= pixelData[1].priority

\* ================================================ scheduler claims: the burn

\* C35: the burn of BurnCount transparent writes is not issued in a pass in
\* which the fetch or the analysis of a template tile failed.
C35_NoBurnAfterFailedTile ==
  pass.burnt > 0 => \A t \in Tiles : pass.analysis[t].outcome \notin TileFailures

\* ---------------------------------------------------------------- C33, C32

\* n as 4 decimal digits
Padded4(n) == <<n \div 1000, (n \div 100) % 10, (n \div 10) % 10, n % 10>>

\* the first two fields of the key are X and Y, each as 4 digits
NamesTile(chunkKey, X, Y) ==
  LET fields == Split(chunkKey)
  IN Len(fields) = 4 /\ fields[1] = Padded4(X) /\ fields[2] = Padded4(Y)

LoadedChunks == ChunkRefs(templatesArray, Len(templatesArray))

\* C33: a chunk of a loaded template is attributed to tile (X,Y) by
\* drawTemplateOnTile exactly when the first two fields of its key are X and Y
\* zero-padded to 4 digits; the grouping of executeQuickPaint puts each chunk
\* into exactly one group, the one of the tile its key names, and makes one
\* fetchAndAnalyzeTile call per tile.
C33_ChunkAttributedToItsTile ==
  /\ drawn.tileCoords # <<>> =>
       /\ \A ref \in Range(LoadedChunks) :
            ref \in Range(drawn.templatesToDraw)
              <=> NamesTile(ref.chunkKey, drawn.tileCoords[1], drawn.tileCoords[2])
       /\ Range(drawn.templatesToDraw) \subseteq Range(LoadedChunks)
       /\ Cardinality(Range(drawn.templatesToDraw)) = Len(drawn.templatesToDraw)
  /\ tileFetches # <<>> =>
       /\ \A ref \in Range(LoadedChunks) :
            \E g \in DOMAIN tileFetches :
              /\ ref \in Range(tileFetches[g].templateChunks)
              /\ NamesTile(ref.chunkKey, tileFetches[g].tileX, tileFetches[g].tileY)
              /\ \A h \in DOMAIN tileFetches :
                   ref \in Range(tileFetches[h].templateChunks) => h = g
       /\ \A g \in DOMAIN tileFetches :
            /\ tileFetches[g].templateChunks # <<>>
            /\ Range(tileFetches[g].templateChunks) \subseteq Range(LoadedChunks)
            /\ Cardinality(Range(tileFetches[g].templateChunks))
                 = Len(tileFetches[g].templateChunks)
            /\ \A h \in DOMAIN tileFetches :
                 (/\ tileFetches[h].tileX = tileFetches[g].tileX
                  /\ tileFetches[h].tileY = tileFetches[g].tileY) => h = g

\* two loaded templates share tile (1,1) and one of them covers another tile,
\* when tile (1,1) has been drawn and a pass has grouped the chunks
C33_Witness ==
  /\ Len(templatesArray) = 2
  /\ drawn.tileCoords = <<1, 1>>
  /\ Len(drawn.templatesToDraw) = 2
  /\ \E ref \in Range(LoadedChunks) : ~NamesTile(ref.chunkKey, 1, 1)
  /\ Len(tileFetches) = 2
  /\ \E g \in DOMAIN tileFetches : Len(tileFetches[g].templateChunks) = 2

\* the chunk keys of the stored templates, template by template
StoredKeys(json) == [k \in DOMAIN json.templates |-> json.templates[k].tiles]

\* C32: the JSON that createTemplate stored under the declared userscript name
\* is accepted by importJSON on the next load, which rebuilds templates with
\* the same chunk keys.
C32_StoredTemplatesReload ==
  [][(/\ ScriptLoads
      /\ ~storage.null
      /\ storage.templates # <<>>
      /\ storage.whoami = createJSON(DeclaredName).whoami)
       => /\ templatesJSON' = storage
          /\ [k \in DOMAIN templatesArray' |-> templatesArray'[k].chunked]
               = StoredKeys(storage)]_vars

\* the same round trip for a userscript installed under the plain name
StoredTemplatesReloadPlainName ==
  [][(/\ ScriptLoads
      /\ ~storage.null
      /\ storage.templates # <<>>
      /\ storage.whoami = createJSON(PlainName).whoami)
       => /\ templatesJSON' = storage
          /\ [k \in DOMAIN templatesArray' |-> templatesArray'[k].chunked]
               = StoredKeys(storage)]_vars

\* ---------------------------------------------------------------- C31

\* a callback is registered while its fetch waits, and is invoked at most once
CallbackInvokedOnce ==
  \A id \in DOMAIN fetches :
    /\ fetches[id].callbackCalls <= 1
    /\ id \in fetchedBlobQueue <=> fetches[id].state = "waiting"
    /\ fetches[id].state = "resolved" <=> fetches[id].callbackCalls = 1

\* the state of the promise that fetch call id returned ("none": no such call)
PromiseState(id) == IF id \in DOMAIN fetches THEN fetches[id].state ELSE "none"

\* the userscript's switch posts back for the endpoint of fetch call id
Answered(id) ==
  IF id \in DOMAIN fetches THEN Reposts(endpointText(fetches[id].endpoint)) ELSE FALSE

DrawRejected(id) == IF id \in DOMAIN fetches THEN fetches[id].draw = "rejected" ELSE FALSE

\* C31: every fetch that the override hands to the userscript eventually
\* resolves, its callback invoked exactly once and then removed from
\* fetchedBlobQueue, whatever the endpoint of the image.
C31_HandedFetchResolves ==
  /\ []CallbackInvokedOnce
  /\ \A id \in 1..MaxFetches :
       (PromiseState(id) = "waiting")
         ~> (PromiseState(id) = "resolved" /\ id \notin fetchedBlobQueue)

\* the same for the images the userscript draws on, when the draw succeeds
TileFetchResolves ==
  \A id \in 1..MaxFetches :
    (PromiseState(id) = "waiting" /\ Answered(id))
      ~> \/ PromiseState(id) = "resolved" /\ id \notin fetchedBlobQueue
         \/ DrawRejected(id)

\* an image outside the tiles endpoint whose message has been dispatched
WaitsForever ==
  \E id \in DOMAIN fetches :
    /\ fetches[id].state = "waiting"
    /\ ~Reposts(endpointText(fetches[id].endpoint))
    /\ \A data \in messages : data.blobID # id

\* ---------------------------------------------------------------- C37

UniquePerPixel(q) == \A j, k \in DOMAIN q : j # k => Key(q[j]) # Key(q[k])

====
